---- MODULE Spec2Model ----
(***************************************************************************)
(* network-smart-handler: the retry logic (core/retryLogic), the request   *)
(* queue (core/requestQueue), the browser-style status sensor              *)
(* (core/networkDetector, WebNetworkDetector) and the coordinator          *)
(* (core/networkHandler, NetworkHandler).                                  *)
(*                                                                         *)
(* Strings are sequences of tokens, so that String.prototype.includes is a *)
(* contiguous-subsequence test: "NetworkError" is <<"Network", "Error">>   *)
(* and contains "Error" but is not contained in "Error".                   *)
(***************************************************************************)
EXTENDS Integers, Sequences, FiniteSets, TLC

\* ------------------------------------------------------------------ bounds
MaxCalls == 3
MaxCallsProbing == 2
MaxAttemptsDrawn == 3
MaxReq == 3
MaxSizeQueue == 2
MaxSizeDrawn == 1
MaxProbes == 1
RandDen == 2
\* callbacks a collaborator registers, of each kind
MaxListeners == 2

\* ------------------------------------------------------- program constants
DefaultMaxAttempts == 3
DefaultBaseDelay == 1000
DefaultMaxDelay == 30000
DefaultWeakThreshold == 1000
DefaultMediumThreshold == 300

\* ----------------------------------------------------------------- strings
Includes(h, n) ==
  \E i \in 0..(Len(h) - Len(n)) : SubSeq(h, i + 1, i + Len(n)) = n

S_Error == <<"Error">>
S_TypeError == <<"Type", "Error">>
S_NetworkError == <<"Network", "Error">>
S_TimeoutError == <<"Timeout", "Error">>
S_AbortError == <<"Abort", "Error">>
S_DOMException == <<"DOMException">>
S_Object == <<"Object">>
S_ObjectObject == <<"[object ", "Object", "]">>
S_ECONNREFUSED == <<"ECONNREFUSED">>
S_ETIMEDOUT == <<"ETIMEDOUT">>
S_NetworkRequestFailed == <<"Network", " request failed">>
S_FailedToFetch == <<"Failed to ", "fetch">>
S_fetch == <<"fetch">>
S_network == <<"network">>
S_InvalidURL == <<"Invalid URL">>
S_Aborted == <<"Aborted">>
S_RequestAborted == <<"Request aborted">>
S_OperationAborted == <<"The operation was aborted.">>
S_QueueIsFull == <<"Queue is full">>
S_NotFoundInQueue == <<"Request ", "id", " not found in queue">>

\* Response.statusText of the statuses the transport returns here
StatusText(status) ==
  CASE status = 200 -> <<"OK">>
    [] status = 404 -> <<"Not Found">>
    [] status = 408 -> <<"Request Timeout">>
    [] status = 429 -> <<"Too Many Requests">>
    [] status = 500 -> <<"Internal Server ", "Error">>
    [] status = 503 -> <<"Service Unavailable">>
    [] OTHER -> <<>>

\* ------------------------------------------------------------------ errors
\* A thrown value: constructor name, name, message, code, response.status
\* (0: none), whether it is an instance of TypeError, and the attempt that
\* raised it (object identity; 0 for values not raised by an attempt).
Err(ctor, name, msg, code, status, isTE, at) ==
  [ctor |-> ctor, name |-> name, msg |-> msg, code |-> code,
   status |-> status, isTypeError |-> isTE, at |-> at]

\* RangeError("Maximum call stack size exceeded"), raised when a synchronous
\* recursion exhausts the call stack
S_RangeError == <<"Range", "Error">>
StackOverflowError(at) ==
  Err(S_RangeError, S_RangeError, <<"Maximum call stack size exceeded">>, "", 0, FALSE, at)

\* fetch rejecting with TypeError("Failed to fetch")
FailedToFetchError(at) == Err(S_TypeError, S_TypeError, S_FailedToFetch, "", 0, TRUE, at)
\* fetch rejecting with TypeError("Invalid URL")
InvalidUrlError(at) == Err(S_TypeError, S_TypeError, S_InvalidURL, "", 0, TRUE, at)
\* fetch rejecting with DOMException AbortError once its signal is aborted
FetchAbortError(at) == Err(S_DOMException, S_AbortError, S_OperationAborted, "", 0, FALSE, at)
\* the plain object { response: fetchResponse } executeFetch classifies
ResponseObject(status) == Err(S_Object, <<>>, <<>>, "", status, FALSE, 0)
\* new Error(`HTTP ${status}: ${statusText}`)
HttpError(status, at) ==
  Err(S_Error, S_Error,
      <<"HTTP ", ToString(status), ": ">> \o StatusText(status), "", 0, FALSE, at)
\* new Error('Aborted'), new Error('Request aborted')
SleepAbortedError == Err(S_Error, S_Error, S_Aborted, "", 0, FALSE, 0)
RequestAbortedError == Err(S_Error, S_Error, S_RequestAborted, "", 0, FALSE, 0)

\* String(error)
StringOf(error) ==
  IF error.ctor = S_Object THEN S_ObjectObject
  ELSE IF error.msg = <<>> THEN error.name
  ELSE error.name \o <<": ">> \o error.msg

\* error?.constructor?.name || error?.name || String(error)
ErrorType(error) ==
  IF error.ctor # <<>> THEN error.ctor
  ELSE IF error.name # <<>> THEN error.name
  ELSE StringOf(error)

\* error?.message || String(error)
ErrorMessage(error) ==
  IF error.msg # <<>> THEN error.msg ELSE StringOf(error)

\* ------------------------------------------------------------- retry logic
DefaultRetryableStatuses == {408, 429, 500, 502, 503, 504}
DefaultRetryableErrors ==
  {S_NetworkError, S_TimeoutError, S_ECONNREFUSED, S_ETIMEDOUT,
   S_NetworkRequestFailed, S_FailedToFetch}

\* A RetryConfig; maxDelay = -1 and hasStatuses/hasErrors = FALSE stand for
\* undefined fields.
RetryConfig(n, strategy, base, maxDelay, hasSt, st, hasEr, er) ==
  [maxAttempts |-> n, strategy |-> strategy, baseDelay |-> base,
   maxDelay |-> maxDelay, hasStatuses |-> hasSt, retryableStatuses |-> st,
   hasErrors |-> hasEr, retryableErrors |-> er]

defaultRetryConfig ==
  RetryConfig(DefaultMaxAttempts, "exponential", DefaultBaseDelay, DefaultMaxDelay,
              TRUE, DefaultRetryableStatuses, TRUE, DefaultRetryableErrors)

\* retryLogic.isRetryableError, first block: the configured error tags
MatchesRetryableErrors(error, config) ==
  /\ config.hasErrors
  /\ config.retryableErrors # {}
  /\ \E retryable \in config.retryableErrors :
       \/ Includes(ErrorType(error), retryable)
       \/ Includes(ErrorMessage(error), retryable)

\* retryLogic.isRetryableError, second block: recognised network failures
IsNetworkFailure(error) ==
  \/ /\ error.isTypeError
     /\ \/ Includes(error.msg, S_fetch)
        \/ Includes(error.msg, S_NetworkRequestFailed)
        \/ Includes(error.msg, S_network)
        \/ Includes(error.msg, S_FailedToFetch)
  \/ error.name = S_NetworkError
  \/ error.name = S_AbortError
  \/ error.code = "ECONNREFUSED"
  \/ error.code = "ETIMEDOUT"
  \/ Includes(error.msg, S_NetworkRequestFailed)
  \/ Includes(error.msg, S_FailedToFetch)

\* retryLogic.isRetryableError, third block: error.response.status.  The
\* default rule (5xx, 408, 429) is applied whether or not a list is set.
StatusIsRetryable(error, config) ==
  /\ error.status # 0
  /\ \/ config.hasStatuses /\ error.status \in config.retryableStatuses
     \/ error.status >= 500
     \/ error.status = 408
     \/ error.status = 429

isRetryableError(error, config) ==
  \/ MatchesRetryableErrors(error, config)
  \/ IsNetworkFailure(error)
  \/ StatusIsRetryable(error, config)

RECURSIVE Pow2(_)
Pow2(n) == IF n <= 0 THEN 1 ELSE 2 * Pow2(n - 1)

Min(a, b) == IF a <= b THEN a ELSE b
Max(a, b) == IF a >= b THEN a ELSE b

\* retryLogic.calculateRetryDelay; Math.random() is rnd / RandDen with
\* rnd in 0..RandDen-1, and the floor of the capped value is taken last.
calculateRetryDelay(attempt, config, rnd) ==
  LET exp == config.baseDelay * Pow2(attempt - 1)
      \* the delay before the cap, as a fraction num / den
      num == CASE config.strategy = "fixed" -> config.baseDelay
               [] config.strategy = "exponential" -> exp
               [] config.strategy = "exponential-jitter" -> rnd * exp
               [] config.strategy = "exponential-partial-jitter" -> exp * (RandDen + rnd)
               [] OTHER -> config.baseDelay
      den == CASE config.strategy = "exponential-jitter" -> RandDen
               [] config.strategy = "exponential-partial-jitter" -> 2 * RandDen
               [] OTHER -> 1
      floored == num \div den
      capped == IF config.maxDelay # -1 THEN Min(floored, config.maxDelay) ELSE floored
  IN Max(0, capped)

Strategies == {"fixed", "exponential", "exponential-jitter", "exponential-partial-jitter"}
RandomDraws == 0..(RandDen - 1)

\* ---------------------------------------------------------- request queue
\* priority: undefined (no request is given -1 as its priority)
NoPriority == -1

\* QueueConfig; maxSize = 0 stands for an unset (falsy) maxSize
QueueConfig(policy, maxSize, priority) ==
  [policy |-> policy, maxSize |-> maxSize, priority |-> priority]

Policies == {"drop-oldest", "drop-newest", "reject", "persist"}

\* A QueuedRequest: id, priority (NoPriority: undefined) and whether it holds
\* an AbortController
QueuedRequest(id, priority, abortController) ==
  [id |-> id, priority |-> priority, abortController |-> abortController]
NoRequest == QueuedRequest(0, NoPriority, FALSE)

\* req.priority || 0
PriorityOrZero(p) == IF p = NoPriority THEN 0 ELSE p

\* requestQueue.enqueue, lines 50-64: insertion by priority, else FIFO
InsertRequest(q, req, qc) ==
  IF qc.priority /\ req.priority # NoPriority
  THEN LET lower == {i \in 1..Len(q) : PriorityOrZero(q[i].priority) < req.priority}
       IN IF lower = {} THEN Append(q, req)
          ELSE LET insertIndex == CHOOSE i \in lower : \A j \in lower : i <= j
               IN SubSeq(q, 1, insertIndex - 1) \o <<req>> \o SubSeq(q, insertIndex, Len(q))
  ELSE Append(q, req)

\* Faulty variant of QueueIsFull: the test is > instead of >=
QueueIsFullBeyond(q, qc) == qc.maxSize # 0 /\ Len(q) > qc.maxSize

\* requestQueue.enqueue, line 35: the capacity test
QueueIsFull(q, qc) == qc.maxSize # 0 /\ Len(q) >= qc.maxSize

\* Faulty variant of enqueue: drop-oldest evicts with pop() instead of shift()
enqueueDroppingBack(q, req, qc) ==
  IF QueueIsFull(q, qc) /\ qc.policy = "drop-newest"
  THEN [queue |-> q, outcome |-> "dropped", evicted |-> <<>>]
  ELSE IF QueueIsFull(q, qc) /\ qc.policy = "reject"
  THEN [queue |-> q, outcome |-> "rejected", evicted |-> <<>>]
  ELSE IF QueueIsFull(q, qc) /\ qc.policy = "drop-oldest"
  THEN [queue |-> InsertRequest(SubSeq(q, 1, Len(q) - 1), req, qc),
        outcome |-> "admitted", evicted |-> <<q[Len(q)]>>]
  ELSE [queue |-> InsertRequest(q, req, qc), outcome |-> "admitted", evicted |-> <<>>]

\* requestQueue.enqueue: the queue after the call, what became of the request
\* ("admitted", "dropped": id returned but not queued, "rejected": Queue is
\* full raised) and the requests evicted by drop-oldest
enqueue(q, req, qc) ==
  IF QueueIsFull(q, qc) /\ qc.policy = "drop-newest"
  THEN [queue |-> q, outcome |-> "dropped", evicted |-> <<>>]
  ELSE IF QueueIsFull(q, qc) /\ qc.policy = "reject"
  THEN [queue |-> q, outcome |-> "rejected", evicted |-> <<>>]
  ELSE IF QueueIsFull(q, qc) /\ qc.policy = "drop-oldest"
  THEN [queue |-> InsertRequest(Tail(q), req, qc), outcome |-> "admitted",
        evicted |-> <<Head(q)>>]
  ELSE [queue |-> InsertRequest(q, req, qc), outcome |-> "admitted", evicted |-> <<>>]

\* Faulty variant of dequeue: the request behind the one returned is lost too
dequeueSkipping(q) ==
  IF q = <<>> THEN [request |-> NoRequest, queue |-> q]
  ELSE [request |-> Head(q), queue |-> IF Len(q) > 1 THEN Tail(Tail(q)) ELSE <<>>]

\* requestQueue.dequeue: Array.prototype.shift; the request returned
\* (NoRequest: undefined) and the queue left
dequeue(q) ==
  IF q = <<>> THEN [request |-> NoRequest, queue |-> q]
  ELSE [request |-> Head(q), queue |-> Tail(q)]

\* requestQueue.remove: splice at findIndex(id)
remove(q, id) ==
  LET found == {i \in 1..Len(q) : q[i].id = id}
  IN IF found = {} THEN q
     ELSE LET index == CHOOSE i \in found : \A j \in found : i <= j
          IN SubSeq(q, 1, index - 1) \o SubSeq(q, index + 1, Len(q))

QueueIds(q) == {q[i].id : i \in 1..Len(q)}

\* requestQueue.remove: what it returns, 1 for true and 0 for false
removeReturns(q, id) == IF id \in QueueIds(q) THEN 1 ELSE 0

\* ------------------------------------------------------------------ storage
\* persist: config.persistToStorage && storage; loaded: loadFromStorage has
\* run to its end; has, items: getItem(storageKey) is not null, and the
\* requests it parses to
Storage(persist, loaded, has, items) ==
  [persist |-> persist, loaded |-> loaded, has |-> has, items |-> items]
NoStorage == Storage(FALSE, TRUE, FALSE, <<>>)

\* options.headers of a call (a RequestInit's HeadersInit, cast to a record at
\* networkHandler line 179): none, a plain object, or a Headers instance;
\* "empty" is the plain object {}
HeadersDrawn == {"none", "record", "Headers"}

\* JSON.parse(JSON.stringify(headers)): a plain object comes back as it was,
\* an undefined property is left out, and a Headers instance, which has no
\* own enumerable property, comes back as {}
JsonHeaders(h) == IF h = "Headers" THEN "empty" ELSE h

\* A QueuedRequest together with its headers
RequestWithHeaders(id, priority, headers, abortController) ==
  [id |-> id, priority |-> priority, headers |-> headers, abortController |-> abortController]

\* requestQueue.saveToStorage lines 159-166 and loadFromStorage line 141: one
\* request after JSON.stringify without its abortController and JSON.parse
JsonRequest(req) ==
  IF "headers" \in DOMAIN req
  THEN [req EXCEPT !.abortController = FALSE, !.headers = JsonHeaders(@)]
  ELSE [req EXCEPT !.abortController = FALSE]

\* requestQueue.saveToStorage lines 162-167: abort controllers are not persisted
Serializable(q) == [i \in 1..Len(q) |-> JsonRequest(q[i])]

\* the storage after saveToStorage() of queue q, where persistence is enabled
saveToStorage(st, q) ==
  IF st.persist THEN [st EXCEPT !.has = TRUE, !.items = Serializable(q)] ELSE st

\* Faulty variant of EnqueueSaves: the save precedes the capacity switch
EnqueueSavesAlways(e) == TRUE

\* requestQueue.enqueue lines 66-69 are reached by an admitted request only
EnqueueSaves(e) == e.outcome = "admitted"
StoreAfterEnqueue(st, e) == IF EnqueueSaves(e) THEN saveToStorage(st, e.queue) ELSE st

\* requestQueue.clear line 111-113: storage.removeItem
removeItem(st) ==
  IF st.persist THEN [st EXCEPT !.has = FALSE, !.items = <<>>] ELSE st

\* requestQueue.loadFromStorage lines 142-146: a parsed request gets a new
\* AbortController where its abortController property is truthy
Revived(req) == [req EXCEPT !.abortController = IF @ THEN TRUE ELSE FALSE]

\* requestQueue.loadFromStorage lines 138-148: the queue after the load
loadFromStorage(st, q) ==
  IF st.has THEN [i \in 1..Len(st.items) |-> Revived(st.items[i])] ELSE q

\* saveToStorage where storage.setItem may fail: lines 168-170 catch the
\* failure and the stored item stays as it was
saveOrFail(st, q, fault) == IF fault THEN st ELSE saveToStorage(st, q)

\* loadFromStorage where storage.getItem may fail: lines 149-151 catch the
\* failure and the queue stays as it was
loadOrFail(st, q, fault) == IF fault THEN q ELSE loadFromStorage(st, q)

\* ------------------------------------------------------- quality classifier
\* A latency measurement; finite = FALSE is Infinity (the probe failed)
Latency(finite, ms) == [finite |-> finite, ms |-> ms]

\* config.qualityThresholds; -1 stands for an undefined threshold
QualityThresholds(weak, medium) == [weak |-> weak, medium |-> medium]
NoThresholds == QualityThresholds(-1, -1)

\* Faulty variant of determineQualityWith: a latency equal to a threshold
\* falls into the better class
determineQualityAbove(latency, thresholds) ==
  LET weakThreshold == IF thresholds.weak = -1 THEN DefaultWeakThreshold ELSE thresholds.weak
      mediumThreshold ==
        IF thresholds.medium = -1 THEN DefaultMediumThreshold ELSE thresholds.medium
  IN IF ~latency.finite \/ latency.ms > weakThreshold THEN "weak"
     ELSE IF latency.ms > mediumThreshold THEN "medium"
     ELSE "strong"

\* WebNetworkDetector.determineQuality under config.qualityThresholds
determineQualityWith(latency, thresholds) ==
  LET weakThreshold == IF thresholds.weak = -1 THEN DefaultWeakThreshold ELSE thresholds.weak
      mediumThreshold ==
        IF thresholds.medium = -1 THEN DefaultMediumThreshold ELSE thresholds.medium
  IN IF ~latency.finite \/ latency.ms >= weakThreshold THEN "weak"
     ELSE IF latency.ms >= mediumThreshold THEN "medium"
     ELSE "strong"

\* WebNetworkDetector.determineQuality with the default thresholds
determineQuality(latency) == determineQualityWith(latency, NoThresholds)

Latencies == {Latency(TRUE, 50), Latency(TRUE, 500), Latency(FALSE, 0)}

\* ------------------------------------------------------------------- state
VARIABLES
  cfg,      \* NetworkHandlerConfig: enableQualityTesting, queue present, QueueConfig, RetryConfig
  net,      \* navigator.onLine, the platform's connectivity
  det,      \* WebNetworkDetector.currentStatus
  probes,   \* updateStatus calls awaiting their measurement, by origin
  hs,       \* NetworkHandler: initialize() progress, currentStatus, processingQueue
  stats,    \* NetworkHandler.statistics
  queue,    \* RequestQueue.queue
  calls,    \* per smartFetch call: the promise returned to the caller
  runs,     \* per call and path: the executeFetch / executeWithRetry activation
  watch,    \* NetworkHandler.statusListeners: the per-call watches of smartFetch
  hist,     \* history: dispatch decisions, calls queued at a reconnect, evictions,
            \* and, where recorded, whether the last handler called
            \* processQueue during a pass
  store,    \* the StorageAdapter of the RequestQueue and what it holds under storageKey
  mon,      \* WebNetworkDetector: window listeners attached, the coordinator's callback registered
  lis,      \* telemetryCallbacks and the collaborators' statusListeners, and what
            \* the last handler of the coordinator delivered to each
  qlog,     \* history of the operations applied to a stand-alone RequestQueue
  pin,      \* input of a pure function under test
  pout,     \* its result
  glob      \* global.fetch: the function bound to it, and the calls made through it

vars ==
  <<cfg, net, det, probes, hs, stats, queue, calls, runs, watch, hist, store, mon, lis,
    qlog, pin, pout, glob>>

Calls == 1..MaxCalls
Paths == {"direct", "drain", "watch"}

NetworkStatus(isOnline, quality) == [isOnline |-> isOnline, quality |-> quality]

\* ----------------------------------------------------------------- results
NoErr == Err(<<>>, <<>>, <<>>, "", 0, FALSE, 0)
NoResult == [kind |-> "none", status |-> 0, err |-> NoErr]
Return(status) == [kind |-> "return", status |-> status, err |-> NoErr]
Throw(e) == [kind |-> "throw", status |-> 0, err |-> e]

\* new Error(`Request ${requestId} not found in queue`), new Error('Queue is full')
NotFoundError == Err(S_Error, S_Error, S_NotFoundInQueue, "", 0, FALSE, 0)
QueueFullError == Err(S_Error, S_Error, S_QueueIsFull, "", 0, FALSE, 0)

\* A promise handed to a caller
Promise(st, result) == [st |-> st, result |-> result]
NoPromise == Promise("none", NoResult)
Pending == Promise("pending", NoResult)
Settled(result) ==
  Promise(IF result.kind = "return" THEN "resolved" ELSE "rejected", result)

\* ------------------------------------------- executeFetch / executeWithRetry
\* One activation of executeFetch: where executeWithRetry stands ("fetch":
\* awaiting the transport, "sleep": awaiting the backoff timer), the attempt,
\* the attempts on which the transport was invoked, the backoff waits begun,
\* what each operation call produced, the final result, and the abort signal
\* ("none": options.signal undefined).
IdleRun ==
  [pc |-> "idle", attempt |-> 0, invoked |-> <<>>, sleeps |-> <<>>,
   outs |-> <<>>, result |-> NoResult, signal |-> "none"]

\* Response.ok
ResponseOk(status) == status >= 200 /\ status <= 299

\* networkHandler.executeFetch lines 223-237: the operation handed to
\* executeWithRetry, given what the transport produced
FetchOperation(outcome, attempt, config) ==
  IF outcome.kind = "throw" THEN Throw(outcome.err)
  ELSE IF ~ResponseOk(outcome.status) /\ isRetryableError(ResponseObject(outcome.status), config)
  THEN Throw(HttpError(outcome.status, attempt))
  ELSE Return(outcome.status)

\* retryLogic.executeWithRetry lines 260-267: the loop head for `attempt`
LoopHead(r, attempt) ==
  IF r.signal = "aborted"
  THEN [r EXCEPT !.pc = "done", !.result = Throw(RequestAbortedError)]
  ELSE [r EXCEPT !.pc = "fetch", !.attempt = attempt, !.invoked = Append(@, attempt)]

\* Faulty variant of the catch block: the last attempt is not recognised
RetryDecisionOneMore(error, attempt, config) ==
  IF ~isRetryableError(error, config) THEN "throw"
  ELSE IF attempt > config.maxAttempts THEN "throw"
  ELSE "sleep"

\* retryLogic.executeWithRetry lines 268-279: what the catch block does
RetryDecision(error, attempt, config) ==
  IF ~isRetryableError(error, config) THEN "throw"
  ELSE IF attempt >= config.maxAttempts THEN "throw"
  ELSE "sleep"

\* Faulty variant of sleep: the token is not looked at when the wait begins
SleepStartUnchecked(r, delay) ==
  [r EXCEPT !.pc = "sleep", !.sleeps = Append(@, delay)]

\* retryLogic.sleep lines 296-300: the wait begins, or fails at once
SleepStart(r, delay) ==
  IF r.signal = "aborted"
  THEN [r EXCEPT !.pc = "done", !.result = Throw(SleepAbortedError)]
  ELSE [r EXCEPT !.pc = "sleep", !.sleeps = Append(@, delay)]

\* Faulty variant of the catch block: the failure is raised wrapped in a new one
AfterTransportWrapping(r, outcome, config, rnd) ==
  LET op == FetchOperation(outcome, r.attempt, config)
      r1 == [r EXCEPT !.outs = Append(@, op)]
      wrapped == Err(S_Error, S_Error, <<"Retry failed: ">> \o op.err.msg, "", 0, FALSE, 0)
  IN IF op.kind = "return" THEN [r1 EXCEPT !.pc = "done", !.result = op]
     ELSE IF RetryDecision(op.err, r.attempt, config) = "throw"
          THEN [r1 EXCEPT !.pc = "done", !.result = Throw(wrapped)]
          ELSE SleepStart(r1, calculateRetryDelay(r.attempt, config, rnd))

\* The transport call of the current attempt settles with `outcome`
AfterTransport(r, outcome, config, rnd) ==
  LET op == FetchOperation(outcome, r.attempt, config)
      r1 == [r EXCEPT !.outs = Append(@, op)]
  IN IF op.kind = "return" THEN [r1 EXCEPT !.pc = "done", !.result = op]
     ELSE IF RetryDecision(op.err, r.attempt, config) = "throw"
          THEN [r1 EXCEPT !.pc = "done", !.result = Throw(op.err)]
          ELSE SleepStart(r1, calculateRetryDelay(r.attempt, config, rnd))

\* retryLogic.sleep line 302: the timer fires, the loop goes to its next attempt
AfterSleep(r) == LoopHead(r, r.attempt + 1)

\* retryLogic.sleep lines 306-310: the abort listener ends a wait in progress
AfterAbort(r) ==
  IF r.pc = "sleep"
  THEN [r EXCEPT !.signal = "aborted", !.pc = "done", !.result = Throw(SleepAbortedError)]
  ELSE [r EXCEPT !.signal = "aborted"]

\* Faulty variant of StatsAfter: the rate is computed before the counters move
StatsAfterStale(st, r, r2) ==
  LET retried == Len(r2.invoked) > Len(r.invoked) /\ r2.attempt > 1
      ended == r.pc # "done" /\ r2.pc = "done"
  IN [st EXCEPT
        !.retryAttempts = @ + (IF retried THEN 1 ELSE 0),
        !.successfulRequests = @ + (IF ended /\ r2.result.kind = "return" THEN 1 ELSE 0),
        !.failedRequests = @ + (IF ended /\ r2.result.kind = "throw" THEN 1 ELSE 0),
        !.retrySuccessRate =
           IF ended /\ st.totalRequests > 0
           THEN <<st.successfulRequests, st.totalRequests>> ELSE @]

\* networkHandler.executeFetch lines 216-220 and 243-256: the statistics
\* after the activation went from r to r2
StatsAfter(st, r, r2) ==
  LET retried == Len(r2.invoked) > Len(r.invoked) /\ r2.attempt > 1
      ended == r.pc # "done" /\ r2.pc = "done"
      ok == st.successfulRequests + (IF ended /\ r2.result.kind = "return" THEN 1 ELSE 0)
  IN [st EXCEPT
        !.retryAttempts = @ + (IF retried THEN 1 ELSE 0),
        !.successfulRequests = ok,
        !.failedRequests = @ + (IF ended /\ r2.result.kind = "throw" THEN 1 ELSE 0),
        !.retrySuccessRate =
           IF ended /\ st.totalRequests > 0 THEN <<ok, st.totalRequests>> ELSE @]


\* --------------------------------------------------------------- listeners
\* WebNetworkDetector: the window listeners attached (constructor, until
\* stopMonitoring), the coordinator's callback among its listeners
Monitoring(window, callback) == [window |-> window, callback |-> callback]

\* The callbacks a collaborator can register; callback 1 raises whenever it
\* is called, the others return
Listeners == 1..MaxListeners
Raises(l) == l = 1

\* a NetworkEvent: its type, and of its data the previous quality and the
\* request id or attempt
NetworkEvent(type, previous, number) ==
  [type |-> type, previous |-> previous, number |-> number]

\* telemetry, status: the two Sets in insertion order (the per-call watches
\* of smartFetch are in `watch`); events, snaps, due, destroyedFrom: what the
\* last handler delivered to each callback, the status listeners its
\* notifyStatusListeners iterated over, and the queue destroy() found if it
\* was destroy(); subscribed: how each subscribe() call ended; cleared: the
\* callbacks destroy() removed that were not registered again since
NoDeliveries == [l \in Listeners |-> <<>>]
NoListeners ==
  [telemetry |-> <<>>, status |-> <<>>, events |-> NoDeliveries, snaps |-> NoDeliveries,
   due |-> <<>>, destroyedFrom |-> <<>>, subscribed |-> [l \in Listeners |-> "none"],
   cleared |-> [telemetry |-> {}, status |-> {}, watch |-> {}]]
AtHandlerStart(l) ==
  [l EXCEPT !.events = NoDeliveries, !.snaps = NoDeliveries, !.due = <<>>,
            !.destroyedFrom = <<>>]

Range(order) == {order[i] : i \in 1..Len(order)}
\* Set.add: an element already present keeps its place
SetAdd(order, l) == IF l \in Range(order) THEN order ELSE Append(order, l)

\* Faulty variant of Reached: no try/catch, forEach ends at the first raise
ReachedUntilRaise(order) ==
  {i \in 1..Len(order) : \A j \in 1..(i - 1) : ~Raises(order[j])}

\* The callbacks a forEach with try/catch around each call gets to
\* (networkHandler.emitEvent 357-363, notifyStatusListeners 370-376)
Reached(order) == 1..Len(order)

DeliverTo(order, got, item) ==
  [l \in Listeners |->
     IF \E i \in Reached(order) : order[i] = l THEN Append(got[l], item) ELSE got[l]]

\* networkHandler.emitEvent
emitEvent(l, event) == [l EXCEPT !.events = DeliverTo(l.telemetry, @, event)]

\* networkHandler.notifyStatusListeners, for the collaborators' listeners
NotifyListeners(l, status) ==
  [l EXCEPT !.due = l.status, !.snaps = DeliverTo(l.status, @, status)]

\* ------------------------------------------------------------- coordinator
\* The coordinator's state as one value at the start of a handler, so that a
\* handler's calls compose
Bundle ==
  [hs |-> hs, stats |-> stats, queue |-> queue, calls |-> calls,
   runs |-> runs, watch |-> watch, hist |-> [hist EXCEPT !.refused = IF @ = "unrecorded" THEN @ ELSE "no"],
   store |-> store,
   mon |-> mon, lis |-> AtHandlerStart(lis)]

Emit(b, type, previous, number) ==
  [b EXCEPT !.lis = emitEvent(@, NetworkEvent(type, previous, number))]

\* Faulty variant of EmitRun: the first attempt is reported as a retry too
EmitRunEveryAttempt(b, r, r2) ==
  LET retried == Len(r2.invoked) > Len(r.invoked)
      ended == r.pc # "done" /\ r2.pc = "done"
      b1 == IF retried THEN Emit(b, "request-retried", "", r2.attempt) ELSE b
  IN IF ~ended THEN b1
     ELSE IF r2.result.kind = "return" THEN Emit(b1, "request-succeeded", "", 0)
     ELSE Emit(b1, "request-failed", "", 0)

\* networkHandler.executeFetch lines 217-220, 244 and 248: the events of an
\* activation that went from r to r2
EmitRun(b, r, r2) ==
  LET retried == Len(r2.invoked) > Len(r.invoked) /\ r2.attempt > 1
      ended == r.pc # "done" /\ r2.pc = "done"
      b1 == IF retried THEN Emit(b, "request-retried", "", r2.attempt) ELSE b
  IN IF ~ended THEN b1
     ELSE IF r2.result.kind = "return" THEN Emit(b1, "request-succeeded", "", 0)
     ELSE Emit(b1, "request-failed", "", 0)

\* request.abortController?.signal || undefined
QueuedSignal(req) == IF req.abortController THEN "live" ELSE "none"

\* networkHandler.smartFetch lines 171-173
shouldQueue(status, hasQueue) ==
  ~status.isOnline \/ (hasQueue /\ status.quality = "weak")

\* networkHandler.executeFetch is entered for call c on path p
StartExecute(b, c, p, signal) ==
  LET r0 == [IdleRun EXCEPT !.signal = signal]
      r1 == LoopHead(r0, 1)
  IN EmitRun([b EXCEPT !.runs[c][p] = r1, !.stats = StatsAfter(@, r0, r1)], r0, r1)

\* networkHandler.processQueue lines 300-329: the loop, from its head, up to
\* the next await of an executeFetch that does not end at once
RECURSIVE DrainLoop(_)
DrainLoop(b) ==
  IF Len(b.queue) > 0 /\ b.hs.status.isOnline
  THEN LET d == dequeue(b.queue)
           b1 == StartExecute(Emit([b EXCEPT !.queue = d.queue,
                                             !.store = saveToStorage(@, d.queue)],
                                   "request-dequeued", "", d.request.id),
                              d.request.id, "drain", QueuedSignal(d.request))
       IN IF b1.runs[d.request.id]["drain"].pc = "done" THEN DrainLoop(b1) ELSE b1
  ELSE [b EXCEPT !.hs.processingQueue = FALSE]

\* Faulty variant of processQueue: a pass in progress is not looked at
processQueueUnguarded(b) ==
  IF ~b.hs.status.isOnline THEN b
  ELSE DrainLoop([b EXCEPT !.hs.processingQueue = TRUE])

\* networkHandler.processQueue lines 292-297
processQueue(b) ==
  IF b.hs.processingQueue
  THEN [b EXCEPT !.hist.refused = IF @ = "unrecorded" THEN @ ELSE "yes"]
  ELSE IF ~b.hs.status.isOnline THEN b
  ELSE DrainLoop([b EXCEPT !.hs.processingQueue = TRUE])

\* Faulty variant of AfterRunStep: a call that failed ends the drain pass
AfterRunStepHalting(b, c, p) ==
  IF b.runs[c][p].pc # "done" THEN b
  ELSE IF p = "drain"
       THEN IF b.runs[c][p].result.kind = "throw"
            THEN [b EXCEPT !.hs.processingQueue = FALSE]
            ELSE DrainLoop(b)
       ELSE [b EXCEPT !.calls[c] = Settled(b.runs[c][p].result)]

\* What follows the step of an activation: smartFetch's promise is settled by
\* a direct or watch activation that ended; processQueue loops on when the
\* activation it awaits ended
AfterRunStep(b, c, p) ==
  IF b.runs[c][p].pc # "done" THEN b
  ELSE IF p = "drain" THEN DrainLoop(b)
  ELSE [b EXCEPT !.calls[c] = Settled(b.runs[c][p].result)]

\* Faulty variant of processQueuedRequest: the call is executed whether or
\* not it is still in the queue
processQueuedRequestUnchecked(b, c) ==
  LET b1 == Emit([b EXCEPT !.queue = remove(@, c),
                           !.store = saveToStorage(@, remove(b.queue, c))],
                 "request-dequeued", "", c)
  IN AfterRunStep(StartExecute(b1, c, "watch", "none"), c, "watch")

\* networkHandler.processQueuedRequest
processQueuedRequest(b, c) ==
  IF c \notin QueueIds(b.queue)
  THEN [b EXCEPT !.calls[c] = Settled(Throw(NotFoundError))]
  ELSE LET req == CHOOSE x \in {b.queue[i] : i \in 1..Len(b.queue)} : x.id = c
           b1 == Emit([b EXCEPT !.queue = remove(@, c),
                                !.store = saveToStorage(@, remove(b.queue, c))],
                      "request-dequeued", "", c)
       IN AfterRunStep(StartExecute(b1, c, "watch", QueuedSignal(req)), c, "watch")

\* networkHandler.smartFetch lines 190-195: the per-call watch of call c
WatchCallback(b, c) ==
  IF b.hs.status.isOnline /\ b.hs.status.quality # "weak"
  THEN processQueuedRequest([b EXCEPT !.watch = @ \ {c}], c)
  ELSE b

\* networkHandler.notifyStatusListeners: the listeners in insertion order
RECURSIVE NotifyEach(_, _)
NotifyEach(b, todo) ==
  IF todo = {} THEN b
  ELSE LET c == CHOOSE x \in todo : \A y \in todo : x <= y
       IN NotifyEach(IF c \in b.watch THEN WatchCallback(b, c) ELSE b, todo \ {c})

\* the collaborators' listeners change nothing of the coordinator, so their
\* place among the watches in the Set's order does not matter
notifyStatusListeners(b) ==
  NotifyEach([b EXCEPT !.lis = NotifyListeners(@, b.hs.status)], b.watch)

\* Faulty variant of MonitorCallback: wasOffline is read after the assignment
MonitorCallbackLate(b, status) ==
  LET b1 == [b EXCEPT !.hs.status = status]
      wasOffline == ~b1.hs.status.isOnline
      b2 == IF wasOffline /\ status.isOnline
            THEN processQueue(Emit([b1 EXCEPT !.hist.atTransition = @ \cup QueueIds(b1.queue)],
                                   "online", "", 0))
            ELSE IF ~wasOffline /\ ~status.isOnline THEN Emit(b1, "offline", "", 0)
            ELSE b1
  IN notifyStatusListeners(b2)

\* networkHandler.initialize lines 80-107: the callback given to
\* startMonitoring.  The comparison of line 92 reads this.currentStatus after
\* line 82 assigned it.  (Line 99 compares the link type the same way; the
\* WebNetworkDetector sets the type once, in its constructor.)
MonitorCallback(b, status) ==
  LET wasOffline == ~b.hs.status.isOnline
      b1 == [b EXCEPT !.hs.status = status]
      b2 == IF wasOffline /\ status.isOnline
            THEN processQueue(Emit([b1 EXCEPT !.hist.atTransition = @ \cup QueueIds(b1.queue)],
                                   "online", "", 0))
            ELSE IF ~wasOffline /\ ~status.isOnline THEN Emit(b1, "offline", "", 0)
            ELSE b1
      b3 == IF b2.hs.status.quality # status.quality
            THEN Emit(b2, "quality-changed", b2.hs.status.quality, 0)
            ELSE b2
  IN notifyStatusListeners(b3)

\* networkHandler.initialize lines 74-112 once getStatus() has resolved with
\* `status`
initialize(b, status) ==
  LET b1 == [b EXCEPT !.hs.status = status, !.hs.init = "done", !.mon.callback = TRUE]
      b2 == MonitorCallback(b1, status)
  IN IF b2.hs.status.isOnline THEN processQueue(b2) ELSE b2

\* networkHandler.subscribe for the collaborator's callback l: line 127 calls
\* it at once, outside any try/catch, so what it raises leaves subscribe()
\* before the unsubscribe handle is returned
subscribe(b, l) ==
  [b EXCEPT !.lis.status = SetAdd(@, l),
            !.lis.snaps[l] = Append(@, b.hs.status),
            !.lis.subscribed[l] = IF Raises(l) THEN "threw" ELSE "returned",
            !.lis.cleared.status = @ \ {l}]

\* networkHandler.onTelemetry
onTelemetry(b, l) ==
  [b EXCEPT !.lis.telemetry = SetAdd(@, l), !.lis.cleared.telemetry = @ \ {l}]

\* Faulty variant of destroy: telemetryCallbacks is not cleared
destroyKeepingTelemetry(b) ==
  [b EXCEPT !.mon = Monitoring(FALSE, FALSE),
            !.watch = {},
            !.lis.status = <<>>,
            !.lis.destroyedFrom = <<b.queue>>,
            !.lis.cleared = [telemetry |-> @.telemetry,
                             status |-> @.status \cup Range(b.lis.status),
                             watch |-> @.watch \cup b.watch]]

\* networkHandler.destroy: the detector's unsubscribe and stopMonitoring
\* remove the coordinator's callback and the window listeners; both Sets
\* are cleared, the per-call watches of smartFetch with the status listeners
destroy(b) ==
  [b EXCEPT !.mon = Monitoring(FALSE, FALSE),
            !.watch = {},
            !.lis.status = <<>>,
            !.lis.telemetry = <<>>,
            !.lis.destroyedFrom = <<b.queue>>,
            !.lis.cleared = [telemetry |-> @.telemetry \cup Range(b.lis.telemetry),
                             status |-> @.status \cup Range(b.lis.status),
                             watch |-> @.watch \cup b.watch]]

\* networkHandler.smartFetch for call c, given signal `signal`
smartFetch(b, c, signal) ==
  LET b1 == [b EXCEPT !.stats.totalRequests = @ + 1,
                      !.hist.given[c] = signal,
                      !.hist.decision[c] =
                         [made |-> TRUE,
                          queued |-> shouldQueue(b.hs.status, cfg.hasQueue),
                          sensorOnline |-> det.isOnline,
                          sensorWeak |-> det.quality = "weak"]]
  IN IF shouldQueue(b.hs.status, cfg.hasQueue)
     THEN LET e == enqueue(b1.queue, QueuedRequest(c, NoPriority, signal = "none"), cfg.queue)
          IN IF e.outcome = "rejected"
             THEN [b1 EXCEPT !.calls[c] = Settled(Throw(QueueFullError))]
             \* subscribe() calls the watch at once with currentStatus, which
             \* is the status that made shouldQueue true: the watch does nothing
             ELSE [Emit(b1, "request-queued", "", c) EXCEPT
                     !.queue = e.queue,
                     !.store = StoreAfterEnqueue(@, e),
                     !.hist.evicted = @ \cup QueueIds(e.evicted),
                     !.calls[c] = Pending,
                     !.watch = @ \cup {c}]
     ELSE AfterRunStep(StartExecute([b1 EXCEPT !.calls[c] = Pending], c, "direct", signal),
                       c, "direct")

\* The activations of smartFetch that nest, each inside the fetch of the one
\* before, until the call stack is exhausted
StackDepth == 2

\* One nested handler.smartFetch whose own fetch raised `err`: it counts the
\* request (smartFetch line 163), goes to executeFetch because the status is
\* the one under which the outer activation is fetching, and executeFetch
\* counts and reports the failure (lines 244-254) before raising it
NestedSmartFetch(b, err) ==
  LET r0 == IdleRun
      r1 == LoopHead(r0, 1)
      r2 == AfterTransport(r1, [kind |-> "throw", status |-> 0, err |-> err], cfg.retry, 0)
      b1 == EmitRun([b EXCEPT !.stats = StatsAfter([@ EXCEPT !.totalRequests = @ + 1], r0, r1)],
                    r0, r1)
  IN EmitRun([b1 EXCEPT !.stats = StatsAfter(@, r1, r2)], r1, r2)

RECURSIVE NestedCalls(_, _)
NestedCalls(b, depth) ==
  IF depth = 0 THEN b ELSE NestedSmartFetch(NestedCalls(b, depth - 1), StackOverflowError(1))

\* networkHandler.executeFetch line 223 calls the global fetch.  Where
\* replaceGlobalFetch (fetchAdapter lines 20-31) has bound it to the adapter,
\* that call is handler.smartFetch again, which reaches line 223 again before
\* any await: the recursion ends in a RangeError that every nested
\* activation counts and raises, and the fetch of the activation of call c on
\* path p fails with it.
FetchThroughAdapter(b, c, p) ==
  LET b1 == NestedCalls(b, StackDepth)
      r == b.runs[c][p]
      r2 == AfterTransport(r, [kind |-> "throw", status |-> 0,
                               err |-> StackOverflowError(1)], cfg.retry, 0)
  IN EmitRun([b1 EXCEPT !.runs[c][p] = r2, !.stats = StatsAfter(@, r, r2)], r, r2)

\* The activations that called fetch in this handler while global.fetch is
\* the adapter and the status sends a nested smartFetch to executeFetch.  No
\* configuration used with the adapter retries a RangeError, so each nested
\* call ends at once.
FetchesEntered(b) ==
  {cp \in Calls \X Paths :
     /\ glob.fetch = "smartFetch"
     /\ ~shouldQueue(b.hs.status, cfg.hasQueue)
     /\ b.runs[cp[1]][cp[2]].pc = "fetch"
     /\ b.runs[cp[1]][cp[2]] # runs[cp[1]][cp[2]]}

\* The rejections of those fetches reach their awaits once the handler has
\* returned, call by call; what awaits an activation goes on from there
RECURSIVE ResolveFetches(_)
ResolveFetches(b) ==
  IF glob.fetch = "original" \/ FetchesEntered(b) = {} THEN b
  ELSE LET cp == CHOOSE x \in FetchesEntered(b) :
                   \A y \in FetchesEntered(b) : x[1] <= y[1]
       IN ResolveFetches(AfterRunStep(FetchThroughAdapter(b, cp[1], cp[2]), cp[1], cp[2]))

\* The handler ends: the state it and the rejections it left behind produce
Commit(b) ==
  \E returned \in {b} : \E after \in {ResolveFetches(returned)} :
    /\ hs' = after.hs
    /\ stats' = after.stats
    /\ queue' = after.queue
    /\ calls' = after.calls
    /\ runs' = after.runs
    /\ watch' = after.watch
    /\ hist' = after.hist
    /\ store' = after.store
    /\ mon' = after.mon
    /\ lis' = after.lis

\* ----------------------------------------------------------------- actions
UnchangedCoordinator ==
  UNCHANGED <<hs, stats, queue, calls, runs, watch, hist, store, mon, lis>>
UnchangedOther == UNCHANGED <<qlog, pin, pout, glob>>

\* WebNetworkDetector.updateStatus lines 179-188: the new snapshot goes to
\* the listeners; the coordinator listens once initialize() has registered
\* its callback, until destroy() removes it
DetectorUpdate(status) ==
  /\ det' = status
  /\ IF mon.callback THEN Commit(MonitorCallback(Bundle, status))
     ELSE UnchangedCoordinator

NoProbes == [online |-> 0, tick |-> 0]
ProbeCount == probes.online + probes.tick

\* window 'online': handleOnline -> updateStatus({isOnline: true}), which
\* awaits the measurements first when quality testing is enabled
PlatformOnline ==
  /\ ~net
  /\ net' = TRUE
  /\ IF ~mon.window
     THEN /\ UNCHANGED <<det, probes>>
          /\ UnchangedCoordinator
     ELSE IF cfg.probe
     THEN /\ ProbeCount < MaxProbes
          /\ probes' = [probes EXCEPT !.online = @ + 1]
          /\ UNCHANGED det
          /\ UnchangedCoordinator
     ELSE /\ DetectorUpdate(NetworkStatus(TRUE, det.quality))
          /\ UNCHANGED probes
  /\ UNCHANGED cfg
  /\ UnchangedOther

\* window 'offline': handleOffline -> updateStatus({isOnline: false, quality: 'weak'})
PlatformOffline ==
  /\ net
  /\ net' = FALSE
  /\ IF mon.window THEN DetectorUpdate(NetworkStatus(FALSE, "weak"))
     ELSE UNCHANGED det /\ UnchangedCoordinator
  /\ UNCHANGED <<cfg, probes>>
  /\ UnchangedOther

\* the setInterval callback of startMonitoring: updateStatus({})
ProbeTimer ==
  /\ cfg.probe
  /\ mon.callback
  /\ ProbeCount < MaxProbes
  /\ probes' = [probes EXCEPT !.tick = @ + 1]
  /\ UNCHANGED <<cfg, net, det>>
  /\ UnchangedCoordinator
  /\ UnchangedOther

\* an updateStatus call gets its latency measurement
ProbeComplete ==
  \E kind \in {"online", "tick"}, latency \in Latencies :
    /\ probes[kind] > 0
    /\ probes' = [probes EXCEPT ![kind] = @ - 1]
    /\ DetectorUpdate(NetworkStatus(IF kind = "online" THEN TRUE ELSE det.isOnline,
                                    determineQuality(latency)))
    /\ UNCHANGED <<cfg, net>>
    /\ UnchangedOther

\* detector.getStatus() resolves and initialize() runs to its end
InitializeComplete ==
  \E latency \in Latencies :
    LET status == IF cfg.probe
                  THEN NetworkStatus(det.isOnline, determineQuality(latency))
                  ELSE det
    IN /\ hs.init = "pending"
       /\ det' = status
       /\ Commit(initialize(Bundle, status))
       /\ UNCHANGED <<cfg, net, probes>>
       /\ UnchangedOther

CallsMade == {c \in Calls : calls[c].st # "none"}
NextCall == Cardinality(CallsMade) + 1

\* a caller invokes smartFetch, for the first `limit` calls
SmartFetch(signal, limit) ==
  /\ Cardinality(CallsMade) < limit
  /\ Commit(smartFetch(Bundle, NextCall, signal))
  /\ UNCHANGED <<cfg, net, det, probes>>
  /\ UnchangedOther

\* What the transport can produce for an attempt: a response with one of
\* `statuses`, or a failure among `failures` ("fetch": TypeError Failed to
\* fetch, "url": TypeError Invalid URL), or AbortError once aborted
TransportOutcomes(r, statuses, failures) ==
  {[kind |-> "response", status |-> st, err |-> NoErr] : st \in statuses}
  \cup {[kind |-> "throw", status |-> 0, err |-> e] :
          e \in (IF "fetch" \in failures THEN {FailedToFetchError(r.attempt)} ELSE {})
                \cup (IF "url" \in failures THEN {InvalidUrlError(r.attempt)} ELSE {})
                \cup (IF r.signal = "aborted" THEN {FetchAbortError(r.attempt)} ELSE {})}

\* the fetch of an attempt settles
TransportComplete(statuses, failures) ==
  \E c \in Calls, p \in Paths, rnd \in RandomDraws :
    \E outcome \in TransportOutcomes(runs[c][p], statuses, failures) :
      LET r == runs[c][p]
          r2 == AfterTransport(r, outcome, cfg.retry, rnd)
          b == EmitRun([Bundle EXCEPT !.runs[c][p] = r2, !.stats = StatsAfter(@, r, r2)],
                       r, r2)
      IN /\ r.pc = "fetch"
         /\ Commit(AfterRunStep(b, c, p))
         /\ UNCHANGED <<cfg, net, det, probes>>
         /\ UnchangedOther

\* the backoff timer of an activation fires
SleepComplete ==
  \E c \in Calls, p \in Paths :
    LET r == runs[c][p]
        r2 == AfterSleep(r)
        b == EmitRun([Bundle EXCEPT !.runs[c][p] = r2, !.stats = StatsAfter(@, r, r2)],
                     r, r2)
    IN /\ r.pc = "sleep"
       /\ Commit(AfterRunStep(b, c, p))
       /\ UNCHANGED <<cfg, net, det, probes>>
       /\ UnchangedOther

\* the caller aborts the signal it gave to smartFetch
AbortSignal ==
  \E c \in Calls, p \in Paths :
    LET r == runs[c][p]
        r2 == AfterAbort(r)
        b == EmitRun([Bundle EXCEPT !.runs[c][p] = r2, !.stats = StatsAfter(@, r, r2)],
                     r, r2)
    IN /\ r.pc \in {"fetch", "sleep"}
       /\ r.signal = "live"
       /\ Commit(AfterRunStep(b, c, p))
       /\ UNCHANGED <<cfg, net, det, probes>>
       /\ UnchangedOther

\* a collaborator registers a telemetry callback; the callbacks are
\* registered in the order of their numbers, the raising one first
OnTelemetry ==
  \E l \in Listeners :
    /\ l = Len(lis.telemetry) + 1
    /\ Commit(onTelemetry(Bundle, l))
    /\ UNCHANGED <<cfg, net, det, probes>>
    /\ UnchangedOther

\* a collaborator subscribes a status listener
Subscribe ==
  \E l \in Listeners :
    /\ l = Len(lis.status) + 1
    /\ Commit(subscribe(Bundle, l))
    /\ UNCHANGED <<cfg, net, det, probes>>
    /\ UnchangedOther

\* a collaborator calls destroy()
Destroy ==
  /\ Commit(destroy(Bundle))
  /\ UNCHANGED <<cfg, net, det, probes>>
  /\ UnchangedOther

\* ---------------------------------------------------------- initial states
InitialStatistics ==
  [totalRequests |-> 0, successfulRequests |-> 0, failedRequests |-> 0,
   retryAttempts |-> 0, retrySuccessRate |-> <<0, 1>>]

\* the signal each smartFetch call was given, as its caller holds it
NoSignals == [c \in Calls |-> "none"]

NoDecision == [made |-> FALSE, queued |-> FALSE, sensorOnline |-> FALSE, sensorWeak |-> FALSE]

InitCoordinator ==
  /\ probes = NoProbes
  /\ stats = InitialStatistics
  /\ queue = <<>>
  /\ calls = [c \in Calls |-> NoPromise]
  /\ runs = [c \in Calls |-> [p \in Paths |-> IdleRun]]
  /\ watch = {}
  /\ hist = [decision |-> [c \in Calls |-> NoDecision], atTransition |-> {}, evicted |-> {},
            refused |-> "unrecorded", given |-> NoSignals]
  /\ store = NoStorage
  /\ mon = Monitoring(TRUE, hs.init = "done")
  /\ lis = NoListeners

NoOutput == [done |-> FALSE, value |-> FALSE]

\* global.fetch is the platform's fetch
PlatformFetch == [fetch |-> "original", calls |-> {}]

InitOther ==
  /\ qlog = <<>>
  /\ pin = "none"
  /\ pout = NoOutput
  /\ glob = PlatformFetch

\* config.queue of the coordinator: absent, or present with a policy and size
HandlerConfig(probe, hasQueue, qc, retry) ==
  [probe |-> probe, hasQueue |-> hasQueue, queue |-> qc, retry |-> retry]

QueueConfigs ==
  {QueueConfig("drop-oldest", 0, FALSE)}
  \cup {QueueConfig(pol, m, FALSE) : pol \in Policies, m \in 1..MaxSizeDrawn}

\* The coordinator's calls are given one attempt each; the retry loop is
\* exercised by SpecRetry
CoordinatorRetry == [defaultRetryConfig EXCEPT !.maxAttempts = 1]

\* The state after `new NetworkHandler(config)`: the placeholder status, and
\* initialize() awaiting detector.getStatus()
InitHandler(probing) ==
  /\ cfg \in {HandlerConfig(pr, hq, qc, CoordinatorRetry) :
                pr \in probing, hq \in BOOLEAN, qc \in QueueConfigs}
  /\ (~cfg.hasQueue => cfg.queue = QueueConfig("drop-oldest", 0, FALSE))
  /\ net \in BOOLEAN
  /\ det = NetworkStatus(net, "medium")
  /\ hs = [init |-> "pending", status |-> NetworkStatus(FALSE, "medium"),
           processingQueue |-> FALSE]
  /\ InitCoordinator
  /\ InitOther

\* The coordinator over a sensor with or without quality testing
Init == InitHandler(BOOLEAN)

Next ==
  \/ InitializeComplete
  \/ PlatformOnline
  \/ PlatformOffline
  \/ ProbeTimer
  \/ ProbeComplete
  \/ SmartFetch("none", MaxCallsProbing)
  \/ TransportComplete({200}, {"fetch"})

Spec == Init /\ [][Next]_vars

\* The coordinator over a sensor without quality testing and a transport
\* that answers every call
InitNoProbe == InitHandler({FALSE})

NextNoProbe ==
  \/ InitializeComplete
  \/ PlatformOnline
  \/ PlatformOffline
  \/ SmartFetch("none", MaxCalls)
  \/ TransportComplete({200}, {})

SpecNoProbe == InitNoProbe /\ [][NextNoProbe]_vars

\* Every transport call terminates.  The platform and the callers owe
\* nothing.  No condition is put on initialize(): the states the liveness
\* property speaks of come after it has completed.
FairSpec ==
  /\ InitNoProbe
  /\ [][NextNoProbe]_vars
  /\ WF_vars(TransportComplete({200}, {}))

\* ------------------------------------------- executeFetch on its own
\* The RetryConfig of a call is defaultRetryConfig overlaid with the
\* handler's and the call's: baseDelay 100 and maxDelay 150 here, the status
\* list the default one or [503], the error tags the default ones, ["Error"]
\* or undefined
RetryConfigsDrawn ==
  {RetryConfig(n, strategy, 100, 150, TRUE, st, hasEr, er) :
     n \in 1..MaxAttemptsDrawn, strategy \in Strategies,
     st \in {{503}, DefaultRetryableStatuses},
     hasEr \in BOOLEAN, er \in {{S_Error}, DefaultRetryableErrors}}

\* An initialised coordinator, online with medium quality, about to be given
\* one call with a RetryConfig drawn from RetryConfigsDrawn
InitRetry ==
  /\ cfg \in {HandlerConfig(FALSE, FALSE, QueueConfig("drop-oldest", 0, FALSE), rc) :
                rc \in RetryConfigsDrawn}
  /\ (~cfg.retry.hasErrors => cfg.retry.retryableErrors = {S_Error})
  /\ net = TRUE
  /\ det = NetworkStatus(TRUE, "medium")
  /\ hs = [init |-> "done", status |-> det, processingQueue |-> FALSE]
  /\ InitCoordinator
  /\ InitOther

Responses == {200, 404, 500}

NextRetry ==
  \/ \E signal \in {"none", "live", "aborted"} : SmartFetch(signal, 1)
  \/ TransportComplete(Responses, {"fetch", "url"})
  \/ SleepComplete
  \/ AbortSignal

SpecRetry == InitRetry /\ [][NextRetry]_vars

\* ---------------------------------------- a coordinator and its listeners
\* The coordinator with an unbounded queue over a sensor without quality
\* testing; collaborators register callbacks and may destroy the handler
MaxCallsListening == MaxCalls - 2

InitListeners ==
  /\ InitNoProbe
  /\ cfg.hasQueue
  /\ cfg.queue = QueueConfig("drop-oldest", 0, FALSE)

NextListeners ==
  \/ InitializeComplete
  \/ PlatformOnline
  \/ PlatformOffline
  \/ OnTelemetry
  \/ Subscribe
  \/ Destroy
  \/ SmartFetch("none", MaxCallsListening)
  \/ TransportComplete({200}, {})

SpecListeners == InitListeners /\ [][NextListeners]_vars

\* The coordinator with an unbounded queue over a sensor with or without
\* quality testing, after onTelemetry registered every callback
AllListeners == [l \in Listeners |-> l]

InitSensor ==
  /\ cfg \in {HandlerConfig(pr, TRUE, QueueConfig("drop-oldest", 0, FALSE), CoordinatorRetry) :
                pr \in BOOLEAN}
  /\ net \in BOOLEAN
  /\ det = NetworkStatus(net, "medium")
  /\ hs = [init |-> "pending", status |-> NetworkStatus(FALSE, "medium"),
           processingQueue |-> FALSE]
  /\ probes = NoProbes
  /\ stats = InitialStatistics
  /\ queue = <<>>
  /\ calls = [c \in Calls |-> NoPromise]
  /\ runs = [c \in Calls |-> [p \in Paths |-> IdleRun]]
  /\ watch = {}
  /\ hist = [decision |-> [c \in Calls |-> NoDecision], atTransition |-> {}, evicted |-> {},
            refused |-> "unrecorded", given |-> NoSignals]
  /\ store = NoStorage
  /\ mon = Monitoring(TRUE, FALSE)
  /\ lis = [NoListeners EXCEPT !.telemetry = AllListeners]
  /\ InitOther

NextSensor ==
  \/ InitializeComplete
  \/ PlatformOnline
  \/ PlatformOffline
  \/ ProbeTimer
  \/ ProbeComplete
  \/ SmartFetch("none", MaxCallsListening)
  \/ TransportComplete({200}, {})

SpecSensor == InitSensor /\ [][NextSensor]_vars

\* ------------------------------------------- a bounded queue and telemetry
\* The coordinator with a queue of every policy, bounded or not, over a
\* sensor without quality testing, after onTelemetry registered every callback
InitEvents ==
  /\ cfg \in {HandlerConfig(FALSE, TRUE, qc, CoordinatorRetry) : qc \in QueueConfigs}
  /\ net \in BOOLEAN
  /\ det = NetworkStatus(net, "medium")
  /\ hs = [init |-> "pending", status |-> NetworkStatus(FALSE, "medium"),
           processingQueue |-> FALSE]
  /\ probes = NoProbes
  /\ stats = InitialStatistics
  /\ queue = <<>>
  /\ calls = [c \in Calls |-> NoPromise]
  /\ runs = [c \in Calls |-> [p \in Paths |-> IdleRun]]
  /\ watch = {}
  /\ hist = [decision |-> [c \in Calls |-> NoDecision], atTransition |-> {}, evicted |-> {},
            refused |-> "unrecorded", given |-> NoSignals]
  /\ store = NoStorage
  /\ mon = Monitoring(TRUE, FALSE)
  /\ lis = [NoListeners EXCEPT !.telemetry = AllListeners]
  /\ InitOther

NextEvents ==
  \/ InitializeComplete
  \/ PlatformOnline
  \/ PlatformOffline
  \/ SmartFetch("none", MaxCallsProbing)
  \/ TransportComplete({200}, {})

SpecEvents == InitEvents /\ [][NextEvents]_vars

\* ------------------------------------- queued calls and their callers' signals
\* The caller of call c aborts the signal it gave to smartFetch, while the
\* promise it got is pending: the activation that was given this signal, if
\* there is one, sees it aborted
CallerAborts ==
  \E c \in Calls :
    LET given == {p \in Paths : runs[c][p].pc \in {"fetch", "sleep"} /\ runs[c][p].signal = "live"}
        b0 == [Bundle EXCEPT !.hist.given[c] = "aborted"]
    IN /\ hist.given[c] = "live"
       /\ calls[c].st = "pending"
       /\ IF given = {} THEN Commit(b0)
          ELSE \E p \in given :
                 LET r == runs[c][p]
                     r2 == AfterAbort(r)
                     b == EmitRun([b0 EXCEPT !.runs[c][p] = r2, !.stats = StatsAfter(@, r, r2)],
                                  r, r2)
                 IN Commit(AfterRunStep(b, c, p))
       /\ UNCHANGED <<cfg, net, det, probes>>
       /\ UnchangedOther

\* An initialised coordinator, offline, with an unbounded queue and two
\* attempts per call, whose callers give a signal to some of their calls
InitCancel ==
  /\ cfg = HandlerConfig(FALSE, TRUE, QueueConfig("drop-oldest", 0, FALSE),
                         RetryConfig(2, "fixed", 100, 150, TRUE, DefaultRetryableStatuses,
                                     TRUE, DefaultRetryableErrors))
  /\ net = FALSE
  /\ det = NetworkStatus(net, "weak")
  /\ hs = [init |-> "done", status |-> det, processingQueue |-> FALSE]
  /\ InitCoordinator
  /\ InitOther

NextCancel ==
  \/ PlatformOnline
  \/ PlatformOffline
  \/ \E signal \in {"none", "live"} : SmartFetch(signal, MaxCallsProbing)
  \/ CallerAborts
  \/ TransportComplete({200}, {"fetch"})
  \/ SleepComplete

SpecCancel == InitCancel /\ [][NextCancel]_vars

\* ------------------------------------- WebNetworkDetector on its own
\* WebNetworkDetector with collaborators' callbacks as its listeners:
\* listeners is the Set, timer whether qualityTestInterval is set, handles
\* the callbacks whose startMonitoring returned an unsubscribe function,
\* last the operation applied last
SensorListeners(window, listeners, timer, handles, last) ==
  [window |-> window, callback |-> FALSE, listeners |-> listeners, timer |-> timer,
   handles |-> handles, last |-> last]

\* networkDetector.startMonitoring lines 208-226: the callback is added and
\* called at once; what it raises leaves startMonitoring at line 210
startMonitoring(m, l, probe) ==
  LET added == [m EXCEPT !.listeners = @ \cup {l}, !.last = "start"]
  IN IF Raises(l) THEN added
     ELSE [added EXCEPT !.timer = @ \/ probe, !.handles = @ \cup {l}]

\* the function startMonitoring returned, lines 219-225
unsubscribe(m, l) ==
  LET left == m.listeners \ {l}
  IN [m EXCEPT !.listeners = left, !.timer = @ /\ left # {}, !.last = "unsubscribe"]

\* networkDetector.stopMonitoring lines 228-238
stopMonitoring(m) ==
  [m EXCEPT !.listeners = {}, !.timer = FALSE, !.window = FALSE, !.last = "stop"]

UnchangedButSensor ==
  UNCHANGED <<cfg, net, det, probes, hs, stats, queue, calls, runs, watch, hist, store, lis>>

StartMonitoring ==
  \E l \in Listeners :
    /\ mon' = startMonitoring(mon, l, cfg.probe)
    /\ UnchangedButSensor
    /\ UnchangedOther

Unsubscribe ==
  \E l \in mon.handles :
    /\ mon' = unsubscribe(mon, l)
    /\ UnchangedButSensor
    /\ UnchangedOther

StopMonitoring ==
  /\ mon' = stopMonitoring(mon)
  /\ UnchangedButSensor
  /\ UnchangedOther

\* the setInterval callback, while the interval is set: updateStatus({})
SensorTimer ==
  /\ mon.timer
  /\ ProbeCount < MaxProbes
  /\ probes' = [probes EXCEPT !.tick = @ + 1]
  /\ UNCHANGED <<cfg, net, det>>
  /\ UnchangedCoordinator
  /\ UnchangedOther

\* A sensor just constructed, with or without quality testing, no coordinator
InitMonitor ==
  /\ cfg \in {HandlerConfig(pr, FALSE, QueueConfig("drop-oldest", 0, FALSE), CoordinatorRetry) :
                pr \in BOOLEAN}
  /\ net \in BOOLEAN
  /\ det = NetworkStatus(net, "medium")
  /\ hs = [init |-> "none", status |-> NetworkStatus(FALSE, "medium"),
           processingQueue |-> FALSE]
  /\ probes = NoProbes
  /\ stats = InitialStatistics
  /\ queue = <<>>
  /\ calls = [c \in Calls |-> NoPromise]
  /\ runs = [c \in Calls |-> [p \in Paths |-> IdleRun]]
  /\ watch = {}
  /\ hist = [decision |-> [c \in Calls |-> NoDecision], atTransition |-> {}, evicted |-> {},
            refused |-> "unrecorded", given |-> NoSignals]
  /\ store = NoStorage
  /\ mon = SensorListeners(TRUE, {}, FALSE, {}, "none")
  /\ lis = NoListeners
  /\ InitOther

NextMonitor ==
  \/ StartMonitoring
  \/ Unsubscribe
  \/ StopMonitoring
  \/ SensorTimer
  \/ ProbeComplete
  \/ PlatformOnline
  \/ PlatformOffline

SpecMonitor == InitMonitor /\ [][NextMonitor]_vars

\* ------------------------------------- executeFetch and its telemetry
\* An initialised coordinator, online with medium quality, with every
\* telemetry callback registered, about to be given one call that is retried
\* at a fixed delay up to maxAttempts times
InitTelemetry ==
  /\ cfg \in {HandlerConfig(FALSE, FALSE, QueueConfig("drop-oldest", 0, FALSE),
                            RetryConfig(n, "fixed", 100, 150, TRUE, DefaultRetryableStatuses,
                                        TRUE, DefaultRetryableErrors)) :
                n \in 1..MaxAttemptsDrawn}
  /\ net = TRUE
  /\ det = NetworkStatus(TRUE, "medium")
  /\ hs = [init |-> "done", status |-> det, processingQueue |-> FALSE]
  /\ probes = NoProbes
  /\ stats = InitialStatistics
  /\ queue = <<>>
  /\ calls = [c \in Calls |-> NoPromise]
  /\ runs = [c \in Calls |-> [p \in Paths |-> IdleRun]]
  /\ watch = {}
  /\ hist = [decision |-> [c \in Calls |-> NoDecision], atTransition |-> {}, evicted |-> {},
            refused |-> "unrecorded", given |-> NoSignals]
  /\ store = NoStorage
  /\ mon = Monitoring(TRUE, TRUE)
  /\ lis = [NoListeners EXCEPT !.telemetry = AllListeners]
  /\ InitOther

NextTelemetry ==
  \/ \E signal \in {"none", "live", "aborted"} : SmartFetch(signal, 1)
  \/ TransportComplete(Responses, {"fetch", "url"})
  \/ SleepComplete
  \/ AbortSignal

SpecTelemetry == InitTelemetry /\ [][NextTelemetry]_vars

\* ------------------------------------ a coordinator over a persisted queue
\* The request a previous session left in storage; its id is that of no call
\* of this session
RestoredId == MaxCalls
RestoredRequest == QueuedRequest(RestoredId, NoPriority, FALSE)

\* The state after `new NetworkHandler(config, storage)` with
\* queue.persistToStorage: the queue's loadFromStorage() awaits
\* storage.getItem, initialize() awaits detector.getStatus(); the storage
\* holds nothing or one request
InitRestore ==
  /\ cfg = HandlerConfig(FALSE, TRUE, QueueConfig("drop-oldest", 0, FALSE), CoordinatorRetry)
  /\ net \in BOOLEAN
  /\ det = NetworkStatus(net, "medium")
  /\ hs = [init |-> "pending", status |-> NetworkStatus(FALSE, "medium"),
           processingQueue |-> FALSE]
  /\ probes = NoProbes
  /\ stats = InitialStatistics
  /\ queue = <<>>
  /\ calls = [c \in Calls |-> NoPromise]
  /\ runs = [c \in Calls |-> [p \in Paths |-> IdleRun]]
  /\ watch = {}
  /\ hist = [decision |-> [c \in Calls |-> NoDecision], atTransition |-> {}, evicted |-> {},
            refused |-> "unrecorded", given |-> NoSignals]
  /\ mon = Monitoring(TRUE, FALSE)
  /\ lis = NoListeners
  /\ store \in {Storage(TRUE, FALSE, FALSE, <<>>),
                Storage(TRUE, FALSE, TRUE, <<RestoredRequest>>)}
  /\ InitOther

\* requestQueue.loadFromStorage: storage.getItem resolves
LoadComplete ==
  /\ ~store.loaded
  /\ store' = [store EXCEPT !.loaded = TRUE]
  /\ queue' = loadFromStorage(store, queue)
  /\ UNCHANGED <<cfg, net, det, probes, hs, stats, calls, runs, watch, hist, mon, lis>>
  /\ UnchangedOther

NextRestore ==
  \/ LoadComplete
  \/ InitializeComplete
  \/ PlatformOnline
  \/ PlatformOffline
  \/ SmartFetch("none", MaxCalls - 1)
  \/ TransportComplete({200, 500}, {})

SpecRestore == InitRestore /\ [][NextRestore]_vars

\* --------------------------------- construction over a storage that holds a call
\* The state after `new NetworkHandler(config, storage)` while the platform
\* is online, over a storage that holds one request: loadFromStorage() awaits
\* storage.getItem and initialize() awaits detector.getStatus(), and either
\* may resolve first.  The platform may go offline and does not come back.
InitBoot ==
  /\ cfg \in {HandlerConfig(pr, TRUE, QueueConfig("drop-oldest", 0, FALSE), CoordinatorRetry) :
                pr \in BOOLEAN}
  /\ net = TRUE
  /\ det = NetworkStatus(net, "medium")
  /\ hs = [init |-> "pending", status |-> NetworkStatus(FALSE, "medium"),
           processingQueue |-> FALSE]
  /\ probes = NoProbes
  /\ stats = InitialStatistics
  /\ queue = <<>>
  /\ calls = [c \in Calls |-> NoPromise]
  /\ runs = [c \in Calls |-> [p \in Paths |-> IdleRun]]
  /\ watch = {}
  /\ hist = [decision |-> [c \in Calls |-> NoDecision], atTransition |-> {}, evicted |-> {},
            refused |-> "unrecorded", given |-> NoSignals]
  /\ mon = Monitoring(TRUE, FALSE)
  /\ lis = NoListeners
  /\ store = Storage(TRUE, FALSE, TRUE, <<RestoredRequest>>)
  /\ InitOther

NextBoot ==
  \/ LoadComplete
  \/ InitializeComplete
  \/ PlatformOffline
  \/ SmartFetch("none", MaxCalls - 1)
  \/ TransportComplete({200, 500}, {})

SpecBoot == InitBoot /\ [][NextBoot]_vars

\* ------------------------------------------------- the drain pass observed
\* A coordinator constructed offline whose queue has loaded the one request
\* its storage held, with the calls of processQueue during a pass recorded
InitDrain ==
  /\ cfg = HandlerConfig(FALSE, TRUE, QueueConfig("drop-oldest", 0, FALSE), CoordinatorRetry)
  /\ net = FALSE
  /\ det = NetworkStatus(net, "medium")
  /\ hs = [init |-> "pending", status |-> NetworkStatus(FALSE, "medium"),
           processingQueue |-> FALSE]
  /\ probes = NoProbes
  /\ stats = InitialStatistics
  /\ queue = <<RestoredRequest>>
  /\ calls = [c \in Calls |-> NoPromise]
  /\ runs = [c \in Calls |-> [p \in Paths |-> IdleRun]]
  /\ watch = {}
  /\ hist = [decision |-> [c \in Calls |-> NoDecision], atTransition |-> {}, evicted |-> {},
            refused |-> "no", given |-> NoSignals]
  /\ mon = Monitoring(TRUE, FALSE)
  /\ lis = NoListeners
  /\ store = Storage(TRUE, TRUE, TRUE, <<RestoredRequest>>)
  /\ InitOther

NextDrain ==
  \/ InitializeComplete
  \/ PlatformOnline
  \/ PlatformOffline
  \/ SmartFetch("none", MaxCalls - 1)
  \/ TransportComplete({200, 500}, {})

SpecDrain == InitDrain /\ [][NextDrain]_vars

\* ----------------------------------- a coordinator behind the global fetch
\* fetchAdapter.replaceGlobalFetch(handler): global.fetch is the adapter
ReplaceGlobalFetch ==
  /\ glob.fetch = "original"
  /\ glob' = [glob EXCEPT !.fetch = "smartFetch"]
  /\ UNCHANGED <<cfg, net, det, probes, qlog, pin, pout>>
  /\ UnchangedCoordinator

\* the function replaceGlobalFetch returned: global.fetch is the platform's again
RestoreGlobalFetch ==
  /\ glob.fetch = "smartFetch"
  /\ glob' = [glob EXCEPT !.fetch = "original"]
  /\ UNCHANGED <<cfg, net, det, probes, qlog, pin, pout>>
  /\ UnchangedCoordinator

\* a caller invokes the global fetch(url) while it is the adapter, which
\* hands the call to handler.smartFetch (fetchAdapter lines 7-15)
GlobalFetch ==
  /\ glob.fetch = "smartFetch"
  /\ Cardinality(CallsMade) < MaxCallsProbing
  /\ Commit(smartFetch(Bundle, NextCall, "none"))
  /\ glob' = [glob EXCEPT !.calls = @ \cup {NextCall}]
  /\ UNCHANGED <<cfg, net, det, probes, qlog, pin, pout>>

\* A coordinator without config.queue, with one attempt per call, whose
\* callers use handler.smartFetch or, once it is replaced, the global fetch
InitAdapter ==
  /\ InitNoProbe
  /\ ~cfg.hasQueue

NextAdapter ==
  \/ InitializeComplete
  \/ PlatformOnline
  \/ PlatformOffline
  \/ ReplaceGlobalFetch
  \/ RestoreGlobalFetch
  \/ GlobalFetch
  \/ SmartFetch("none", MaxCallsProbing)
  \/ TransportComplete({200}, {})

SpecAdapter == InitAdapter /\ [][NextAdapter]_vars

\* ------------------------------------------------- pure functions on their own
ErrorsDrawn ==
  {ResponseObject(st) : st \in {200, 404, 408, 429, 500, 503}}
  \cup {Err(S_Error, S_Error, <<"Request failed with status code">>, "", st, FALSE, 0) :
          st \in {404, 408, 429, 499, 500, 503}}
  \cup {HttpError(500, 0), FailedToFetchError(0), InvalidUrlError(0), FetchAbortError(0),
        Err(S_Error, S_Error, <<"connect ">> \o S_ECONNREFUSED, "ECONNREFUSED", 0, FALSE, 0),
        Err(S_Error, S_Error, <<"boom">>, "", 0, FALSE, 0)}

PureConfigsDrawn ==
  {RetryConfig(DefaultMaxAttempts, "exponential", DefaultBaseDelay, DefaultMaxDelay,
               hasSt, st, hasEr, er) :
     hasSt \in BOOLEAN, st \in {{}, {404}, {503}, DefaultRetryableStatuses},
     hasEr \in BOOLEAN, er \in {{}, {S_Error}, DefaultRetryableErrors}}

InitIdle ==
  /\ net = FALSE
  /\ det = NetworkStatus(FALSE, "medium")
  /\ probes = NoProbes
  /\ hs = [init |-> "pending", status |-> NetworkStatus(FALSE, "medium"),
           processingQueue |-> FALSE]
  /\ stats = InitialStatistics
  /\ queue = <<>>
  /\ calls = [c \in Calls |-> NoPromise]
  /\ runs = [c \in Calls |-> [p \in Paths |-> IdleRun]]
  /\ watch = {}
  /\ hist = [decision |-> [c \in Calls |-> NoDecision], atTransition |-> {}, evicted |-> {},
            refused |-> "unrecorded", given |-> NoSignals]
  /\ mon = Monitoring(TRUE, FALSE)
  /\ lis = NoListeners
  /\ glob = PlatformFetch

InitPure ==
  /\ InitIdle
  /\ store = NoStorage
  /\ cfg = HandlerConfig(FALSE, FALSE, QueueConfig("drop-oldest", 0, FALSE), defaultRetryConfig)
  /\ qlog = <<>>
  /\ pin \in {[fn |-> "isRetryableError", error |-> e, config |-> c] :
                e \in ErrorsDrawn, c \in PureConfigsDrawn}
  /\ (~pin.config.hasStatuses => pin.config.retryableStatuses = {})
  /\ (~pin.config.hasErrors => pin.config.retryableErrors = {})
  /\ pout = NoOutput

ApplyIsRetryableError ==
  /\ pin.fn = "isRetryableError"
  /\ ~pout.done
  /\ pout' = [done |-> TRUE, value |-> isRetryableError(pin.error, pin.config)]
  /\ UNCHANGED <<cfg, net, det, probes, hs, stats, queue, calls, runs, watch, hist, store,
                 mon, lis, qlog, pin, glob>>

NextPure ==
  \/ ApplyIsRetryableError

SpecPure == InitPure /\ [][NextPure]_vars

\* ------------------------------ determineQuality and calculateRetryDelay
\* the latencies a probe measures, in ms, and Infinity for a probe that
\* failed or was aborted after 5 s (measureLatency lines 84-107)
LatenciesDrawn ==
  {Latency(TRUE, ms) : ms \in {0, 50, 99, 100, 299, 300, 399, 400, 500, 999, 1000, 1500}}
  \cup {Latency(FALSE, 0)}

ThresholdsDrawn ==
  {QualityThresholds(weak, medium) : weak \in {-1, 0, 400, 1000}, medium \in {-1, 100, 500}}

\* baseDelay 0, odd and even; maxDelay unset, 0, and below and above the delays
DelayConfigsDrawn ==
  {RetryConfig(DefaultMaxAttempts, strategy, base, maxDelay, TRUE, DefaultRetryableStatuses,
               TRUE, DefaultRetryableErrors) :
     strategy \in Strategies, base \in {0, 1, 100}, maxDelay \in {-1, 0, 150, 1000}}

\* One application of determineQuality or calculateRetryDelay to drawn arguments
InitCalc ==
  /\ InitIdle
  /\ store = NoStorage
  /\ cfg = HandlerConfig(FALSE, FALSE, QueueConfig("drop-oldest", 0, FALSE), defaultRetryConfig)
  /\ qlog = <<>>
  /\ pin \in {[fn |-> "determineQuality", latency |-> l, thresholds |-> th] :
                l \in LatenciesDrawn, th \in ThresholdsDrawn}
            \cup {[fn |-> "calculateRetryDelay", attempt |-> a, config |-> c, rnd |-> rnd] :
                    a \in 1..MaxAttemptsDrawn, c \in DelayConfigsDrawn, rnd \in RandomDraws}
  /\ pout = NoOutput

ApplyDetermineQuality ==
  /\ pin.fn = "determineQuality"
  /\ ~pout.done
  /\ pout' = [done |-> TRUE, value |-> determineQualityWith(pin.latency, pin.thresholds)]
  /\ UNCHANGED <<cfg, net, det, probes, hs, stats, queue, calls, runs, watch, hist, store,
                 mon, lis, qlog, pin, glob>>

ApplyCalculateRetryDelay ==
  /\ pin.fn = "calculateRetryDelay"
  /\ ~pout.done
  /\ pout' = [done |-> TRUE, value |-> calculateRetryDelay(pin.attempt, pin.config, pin.rnd)]
  /\ UNCHANGED <<cfg, net, det, probes, hs, stats, queue, calls, runs, watch, hist, store,
                 mon, lis, qlog, pin, glob>>

NextCalc ==
  \/ ApplyDetermineQuality
  \/ ApplyCalculateRetryDelay

SpecCalc == InitCalc /\ [][NextCalc]_vars

\* ------------------------------------------------- RequestQueue on its own
\* the priorities given to enqueue: none, negative, positive; in FIFO mode,
\* where the code does not read them, none or one
PrioritiesDrawn == {NoPriority, -2, 5}
FifoPrioritiesDrawn == {NoPriority, 5}

NoQueueOp ==
  [op |-> "none", id |-> 0, before |-> <<>>, after |-> <<>>, outcome |-> "", returned |-> 0,
   wrote |-> FALSE]

\* The configurations of a RequestQueue: each capacity policy with a maxSize,
\* and the unbounded queue (maxSize unset; the persist policy with a maxSize
\* admits like it)
QueueConfigsDrawn ==
  {QueueConfig(pol, m, pri) :
     pol \in Policies \ {"persist"}, m \in 1..MaxSizeQueue, pri \in BOOLEAN}
  \cup {QueueConfig("persist", 1, pri) : pri \in BOOLEAN}
  \cup {QueueConfig("drop-oldest", 0, pri) : pri \in BOOLEAN}

\* A RequestQueue under any policy, bounded or not, with or without priority
\* mode, persisting to a storage that held nothing when it was constructed;
\* qlog holds the requests given to enqueue, the ids dequeue returned,
\* whether remove or clear was used, and the last operation
InitQueue ==
  /\ InitIdle
  /\ cfg \in {HandlerConfig(FALSE, TRUE, qc, defaultRetryConfig) : qc \in QueueConfigsDrawn}
  /\ store = Storage(TRUE, TRUE, FALSE, <<>>)
  /\ pin = "none"
  /\ pout = NoOutput
  /\ qlog = [enq |-> <<>>, deq |-> <<>>, edited |-> FALSE, last |-> NoQueueOp]

UnchangedButQueue ==
  UNCHANGED <<cfg, net, det, probes, hs, stats, calls, runs, watch, hist, mon, lis, pin, pout,
              glob>>

\* queue.enqueue(request) with a priority drawn from PrioritiesDrawn
QEnqueue ==
  \E priority \in IF cfg.queue.priority THEN PrioritiesDrawn ELSE FifoPrioritiesDrawn :
    LET id == Len(qlog.enq) + 1
        req == QueuedRequest(id, priority, TRUE)
        e == enqueue(queue, req, cfg.queue)
    IN /\ id <= MaxReq
       /\ queue' = e.queue
       /\ store' = StoreAfterEnqueue(store, e)
       /\ qlog' = [qlog EXCEPT
                     !.enq = Append(@, req),
                     !.last = [op |-> "enqueue", id |-> id, before |-> queue,
                               after |-> e.queue, outcome |-> e.outcome, returned |-> id,
                               wrote |-> store.persist /\ EnqueueSaves(e)]]
       /\ UnchangedButQueue

\* queue.dequeue()
QDequeue ==
  LET d == dequeue(queue)
  IN /\ queue' = d.queue
     /\ store' = IF d.request # NoRequest THEN saveToStorage(store, d.queue) ELSE store
     /\ qlog' = [qlog EXCEPT
                   !.deq = IF d.request = NoRequest THEN @ ELSE Append(@, d.request.id),
                   !.last = [op |-> "dequeue", id |-> 0, before |-> queue,
                             after |-> d.queue, outcome |-> "", returned |-> d.request.id,
                             wrote |-> store.persist /\ d.request # NoRequest]]
     /\ UnchangedButQueue

\* queue.remove(id)
QRemove ==
  \E id \in 1..MaxReq :
    /\ id <= Len(qlog.enq)
    /\ queue' = remove(queue, id)
    /\ store' = IF removeReturns(queue, id) = 1 THEN saveToStorage(store, remove(queue, id))
                ELSE store
    /\ qlog' = [qlog EXCEPT
                  !.edited = TRUE,
                  !.last = [op |-> "remove", id |-> id, before |-> queue,
                            after |-> remove(queue, id), outcome |-> "",
                            returned |-> removeReturns(queue, id),
                            wrote |-> store.persist /\ removeReturns(queue, id) = 1]]
    /\ UnchangedButQueue

\* queue.clear()
QClear ==
  /\ queue' = <<>>
  /\ store' = removeItem(store)
  /\ qlog' = [qlog EXCEPT
                !.edited = TRUE,
                !.last = [op |-> "clear", id |-> 0, before |-> queue, after |-> <<>>,
                          outcome |-> "", returned |-> 0, wrote |-> store.persist]]
  /\ UnchangedButQueue

NextQueue ==
  \/ QEnqueue
  \/ QDequeue
  \/ QRemove
  \/ QClear

SpecQueue == InitQueue /\ [][NextQueue]_vars

\* ------------------------------- RequestQueue persisted from session to session
\* the requests enqueued in a session and over all sessions
MaxPersisted == 2

\* What a request given to enqueue carries: a priority, headers, and whether
\* it holds an AbortController
RequestsDrawn ==
  {[priority |-> NoPriority, headers |-> "none", abortController |-> TRUE],
   [priority |-> 5, headers |-> "record", abortController |-> FALSE],
   [priority |-> -2, headers |-> "record", abortController |-> TRUE],
   [priority |-> NoPriority, headers |-> "Headers", abortController |-> TRUE]}

NoSessionOp == [op |-> "none", before |-> <<>>, raised |-> "none", fault |-> FALSE]

\* A RequestQueue with persistToStorage over a storage that holds nothing;
\* qlog holds the requests given to enqueue, whether a storage call has
\* failed, and the last operation: the queue before it, what it raised, and
\* whether its storage call failed
InitPersist ==
  /\ InitIdle
  /\ cfg \in {HandlerConfig(FALSE, TRUE, qc, defaultRetryConfig) :
               qc \in {QueueConfig("drop-oldest", 0, pri) : pri \in BOOLEAN}
                      \cup {QueueConfig("reject", MaxSizeDrawn, FALSE)}}
  /\ store = Storage(TRUE, TRUE, FALSE, <<>>)
  /\ pin = "none"
  /\ pout = NoOutput
  /\ qlog = [enq |-> <<>>, faulted |-> FALSE, last |-> NoSessionOp]

\* queue.enqueue(request); storage.setItem fails or not
SessionEnqueue ==
  \E shape \in RequestsDrawn :
    LET id == Len(qlog.enq) + 1
        req == RequestWithHeaders(id, shape.priority, shape.headers, shape.abortController)
        e == enqueue(queue, req, cfg.queue)
    IN \E fault \in IF EnqueueSaves(e) THEN BOOLEAN ELSE {FALSE} :
         /\ id <= MaxPersisted
         /\ queue' = e.queue
         /\ store' = IF EnqueueSaves(e) THEN saveOrFail(store, e.queue, fault) ELSE store
         /\ qlog' = [enq |-> Append(qlog.enq, req),
                     faulted |-> qlog.faulted \/ fault,
                     last |-> [op |-> "enqueue", before |-> queue,
                               raised |-> IF e.outcome = "rejected" THEN "QueueFull" ELSE "none",
                               fault |-> fault]]
         /\ UnchangedButQueue

\* queue.dequeue(); storage.setItem fails or not
SessionDequeue ==
  LET d == dequeue(queue)
  IN \E fault \in IF d.request # NoRequest THEN BOOLEAN ELSE {FALSE} :
       /\ queue' = d.queue
       /\ store' = IF d.request # NoRequest THEN saveOrFail(store, d.queue, fault) ELSE store
       /\ qlog' = [qlog EXCEPT
                     !.faulted = @ \/ fault,
                     !.last = [op |-> "dequeue", before |-> queue, raised |-> "none",
                               fault |-> fault]]
       /\ UnchangedButQueue

\* queue.remove(id); storage.setItem fails or not
SessionRemove ==
  \E id \in 1..MaxPersisted :
    \E fault \in IF removeReturns(queue, id) = 1 THEN BOOLEAN ELSE {FALSE} :
      /\ id <= Len(qlog.enq)
      /\ queue' = remove(queue, id)
      /\ store' = IF removeReturns(queue, id) = 1
                  THEN saveOrFail(store, remove(queue, id), fault) ELSE store
      /\ qlog' = [qlog EXCEPT
                    !.faulted = @ \/ fault,
                    !.last = [op |-> "remove", before |-> queue, raised |-> "none",
                              fault |-> fault]]
      /\ UnchangedButQueue

\* queue.clear(), lines 109-114: the queue is emptied, then storage.removeItem
\* is awaited outside any try block, so its failure is raised to the caller
SessionClear ==
  \E fault \in BOOLEAN :
    /\ queue' = <<>>
    /\ store' = IF fault THEN store ELSE removeItem(store)
    /\ qlog' = [qlog EXCEPT
                  !.faulted = @ \/ fault,
                  !.last = [op |-> "clear", before |-> queue,
                            raised |-> IF fault THEN "storage" ELSE "none",
                            fault |-> fault]]
    /\ UnchangedButQueue

\* The session ends and `new RequestQueue(config, storage)` is made over the
\* same storage key: the queue is empty, then loadFromStorage; storage.getItem
\* fails or not
NewSession ==
  \E fault \in BOOLEAN :
    /\ queue' = loadOrFail(store, <<>>, fault)
    /\ store' = store
    /\ qlog' = [qlog EXCEPT
                  !.faulted = @ \/ fault,
                  !.last = [op |-> "construct", before |-> queue, raised |-> "none",
                            fault |-> fault]]
    /\ UnchangedButQueue

NextPersist ==
  \/ SessionEnqueue
  \/ SessionDequeue
  \/ SessionRemove
  \/ SessionClear
  \/ NewSession

SpecPersist == InitPersist /\ [][NextPersist]_vars

\* ------------------------------- RequestQueue over an asynchronous storage
\* the storage calls that can be outstanding at once
MaxWrites == 2

\* A storage whose calls complete later than they are made: writes holds the
\* setItem and removeItem calls made and not completed, in the order they
\* were made (saveToStorage serialises the queue before its first await, so
\* a setItem carries the queue as it was when the operation ran); ordered:
\* the storage completes its calls in the order they were made, otherwise in
\* any order; read: what the constructor's getItem found
AsyncStorage(ordered, has, items) ==
  [persist |-> TRUE, loaded |-> FALSE, has |-> has, items |-> items,
   ordered |-> ordered, writes |-> <<>>, read |-> [has |-> has, items |-> items]]

SetItem(q) == [call |-> "setItem", items |-> Serializable(q)]
RemoveItem == [call |-> "removeItem", items |-> <<>>]

\* `new RequestQueue(config, storage)` over a storage that holds nothing or
\* one request of an earlier session; loadFromStorage awaits getItem.  qlog
\* counts the requests given to enqueue and the operations that changed the
\* queue or the storage, and names the last step.
InitWrites ==
  /\ InitIdle
  /\ cfg \in {HandlerConfig(FALSE, TRUE, qc, defaultRetryConfig) :
               qc \in {QueueConfig("drop-oldest", 0, FALSE)}
                      \cup {QueueConfig(pol, MaxSizeDrawn, FALSE) : pol \in Policies}}
  /\ store \in {AsyncStorage(ordered, FALSE, <<>>) : ordered \in BOOLEAN}
              \cup {AsyncStorage(ordered, TRUE, <<RestoredRequest>>) : ordered \in BOOLEAN}
  /\ pin = "none"
  /\ pout = NoOutput
  /\ qlog = [enq |-> 0, ops |-> 0, last |-> "construct"]

\* the storage call an operation makes, if it makes one
Issue(st, made, write) == IF made THEN [st EXCEPT !.writes = Append(@, write)] ELSE st
Operated(made, op) ==
  [qlog EXCEPT !.ops = IF made /\ @ < MaxWrites THEN @ + 1 ELSE @, !.last = op]

\* queue.enqueue(request)
AsyncEnqueue ==
  LET id == qlog.enq + 1
      e == enqueue(queue, QueuedRequest(id, NoPriority, TRUE), cfg.queue)
  IN /\ id <= MaxPersisted
     /\ Len(store.writes) < MaxWrites
     /\ queue' = e.queue
     /\ store' = Issue(store, EnqueueSaves(e), SetItem(e.queue))
     /\ qlog' = [Operated(EnqueueSaves(e), "enqueue") EXCEPT !.enq = id]
     /\ UnchangedButQueue

\* queue.dequeue(): the save is not awaited
AsyncDequeue ==
  LET d == dequeue(queue)
  IN /\ Len(store.writes) < MaxWrites
     /\ queue' = d.queue
     /\ store' = Issue(store, d.request # NoRequest, SetItem(d.queue))
     /\ qlog' = Operated(d.request # NoRequest, "dequeue")
     /\ UnchangedButQueue

\* queue.remove(id)
AsyncRemove ==
  \E id \in QueueIds(queue) :
    /\ Len(store.writes) < MaxWrites
    /\ queue' = remove(queue, id)
    /\ store' = Issue(store, TRUE, SetItem(remove(queue, id)))
    /\ qlog' = Operated(TRUE, "remove")
    /\ UnchangedButQueue

\* queue.clear()
AsyncClear ==
  /\ Len(store.writes) < MaxWrites
  /\ queue' = <<>>
  /\ store' = Issue(store, TRUE, RemoveItem)
  /\ qlog' = Operated(TRUE, "clear")
  /\ UnchangedButQueue

\* the constructor's getItem resolves with what it read, and loadFromStorage
\* runs to its end
ReadComplete ==
  /\ ~store.loaded
  /\ queue' = loadFromStorage(store.read, queue)
  /\ store' = [store EXCEPT !.loaded = TRUE]
  /\ qlog' = Operated(FALSE, "load")
  /\ UnchangedButQueue

\* a setItem or removeItem call completes; an ordered storage completes the
\* getItem made before them first, and the calls in the order they were made
WriteComplete ==
  \E i \in 1..Len(store.writes) :
    LET w == store.writes[i]
    IN /\ store.ordered => (i = 1 /\ store.loaded)
       /\ store' = [store EXCEPT
                      !.has = w.call = "setItem",
                      !.items = w.items,
                      !.writes = SubSeq(@, 1, i - 1) \o SubSeq(@, i + 1, Len(@))]
       /\ queue' = queue
       /\ qlog' = Operated(FALSE, "write")
       /\ UnchangedButQueue

NextWrites ==
  \/ AsyncEnqueue
  \/ AsyncDequeue
  \/ AsyncRemove
  \/ AsyncClear
  \/ ReadComplete
  \/ WriteComplete

SpecWrites == InitWrites /\ [][NextWrites]_vars

\* ------------------------------------------------------------------ claims
Executed(c) == \E p \in Paths : runs[c][p].pc # "idle"

\* C1: the promise smartFetch returns for a queued call is settled with the
\* outcome of that call's own execution: once the drain pass or the watch
\* has run the call to its end the promise holds that result, and the
\* promise is never rejected as "not found in queue" while the call is being
\* or has been executed.
C1_PromiseSettledByOwnExecution ==
  \A c \in Calls :
    /\ \A p \in {"drain", "watch"} :
         runs[c][p].pc = "done" => calls[c] = Settled(runs[c][p].result)
    /\ calls[c] = Settled(Throw(NotFoundError)) => ~Executed(c)

\* C2: with quality testing disabled, a call made while the sensor was
\* offline and still pending when the sensor is online again is eventually
\* settled (unless the sensor goes offline once more first).
C2_QueuedOfflineEventuallySettled ==
  \A c \in Calls :
    (/\ ~cfg.probe
     /\ hist.decision[c].made
     /\ ~hist.decision[c].sensorOnline
     /\ calls[c].st = "pending"
     /\ hs.init = "done"
     /\ det.isOnline)
    ~> (calls[c].st # "pending" \/ ~det.isOnline)

IsHttpError(e) == e.ctor = S_Error /\ Includes(e.msg, <<"HTTP ">>)

\* every operation call of the activation ended in the failure executeFetch
\* raises for a response with a retryable status
OnlyRetryableStatuses(r) ==
  /\ r.outs # <<>>
  /\ \A i \in 1..Len(r.outs) : r.outs[i].kind = "throw" /\ IsHttpError(r.outs[i].err)

\* C3: when the transport answers every attempt with a retryable status and
\* maxAttempts = N > 1, executeFetch invokes the transport N times, with N-1
\* waits, and ends in failure.
C3_RetryableStatusIsRetried ==
  \A c \in Calls, p \in Paths :
    LET r == runs[c][p]
    IN (r.pc = "done" /\ r.signal = "none" /\ cfg.retry.maxAttempts > 1
        /\ OnlyRetryableStatuses(r))
       => /\ Len(r.invoked) = cfg.retry.maxAttempts
          /\ Len(r.sleeps) = cfg.retry.maxAttempts - 1
          /\ r.result.kind = "throw"

\* C4: a call is queued exactly when the sensor, at the time of the call,
\* reports offline, or reports weak quality and a queue is configured.
C4_DispatchFollowsSensor ==
  \A c \in Calls :
    hist.decision[c].made =>
      (hist.decision[c].queued <=>
         (~hist.decision[c].sensorOnline
          \/ (cfg.hasQueue /\ hist.decision[c].sensorWeak)))

\* C5 as stated: a call that was queued at an offline-to-online transition
\* never leaves the queue without being handed to executeFetch.
C5_NoCallLeavesUnexecuted ==
  \A c \in hist.atTransition : c \notin QueueIds(queue) => Executed(c)

\* C5 (amended): a call that was queued at an offline-to-online transition
\* leaves the queue only by being handed to executeFetch (by the drain pass
\* or its watch) or by a drop-oldest eviction of a later enqueue at capacity.
C5_LeavesByExecutionOrEviction ==
  \A c \in hist.atTransition :
    c \notin QueueIds(queue) =>
      \/ Executed(c)
      \/ c \in hist.evicted /\ cfg.queue.policy = "drop-oldest"

\* a call queued at a transition waited for the drain pass and was run by it
C5_Witness ==
  \E c \in hist.atTransition, d \in hist.atTransition :
    /\ c # d
    /\ runs[c]["drain"].pc = "done"
    /\ runs[d]["drain"].pc # "idle"

\* every operation call of the activation failed with a retryable failure
OnlyRetryableFailures(r) ==
  /\ r.outs # <<>>
  /\ \A i \in 1..Len(r.outs) :
       r.outs[i].kind = "throw" /\ isRetryableError(r.outs[i].err, cfg.retry)

\* C6: with maxAttempts = N, an operation that fails retryably every time
\* and a token never cancelled, the operation is invoked with attempts 1..N
\* in order, N-1 waits are made, the k-th lasting calculateRetryDelay(k), and
\* the N-th failure is what propagates; fixed / 100 ms / N = 3 gives two
\* waits of 100 ms.
C6_RetriesUntilLastAttempt ==
  \A c \in Calls, p \in Paths :
    LET r == runs[c][p]
        N == cfg.retry.maxAttempts
    IN (r.pc = "done" /\ r.signal # "aborted" /\ OnlyRetryableFailures(r))
       => /\ r.invoked = [k \in 1..N |-> k]
          /\ Len(r.sleeps) = N - 1
          /\ \A k \in 1..(N - 1) :
               \E rnd \in RandomDraws : r.sleeps[k] = calculateRetryDelay(k, cfg.retry, rnd)
          /\ Len(r.outs) = N
          /\ r.result = Throw(r.outs[N].err)
          /\ r.result.err.at = N
          /\ (cfg.retry.strategy = "fixed" /\ cfg.retry.baseDelay = 100 /\ N = 3
              => r.sleeps = <<100, 100>>)

C6_Witness ==
  \E c \in Calls :
    LET r == runs[c]["direct"]
    IN /\ r.pc = "done"
       /\ r.signal # "aborted"
       /\ OnlyRetryableFailures(r)
       /\ cfg.retry.strategy = "fixed"
       /\ cfg.retry.maxAttempts = 3
       /\ r.sleeps = <<100, 100>>

\* the activation ended on a failure that is non-retryable or was raised on
\* the last attempt
EndedOnFinalFailure(r) ==
  /\ r.pc = "done"
  /\ r.outs # <<>>
  /\ r.outs[Len(r.outs)].kind = "throw"
  /\ \/ ~isRetryableError(r.outs[Len(r.outs)].err, cfg.retry)
     \/ Len(r.outs) = cfg.retry.maxAttempts

\* C7: a non-retryable failure, or a failure on the last attempt, propagates
\* at once (no wait, no further attempt) and unchanged: executeWithRetry and
\* then executeFetch raise the very failure the operation raised, after
\* executeFetch has counted it.
C7_FinalFailurePropagatesUnchanged ==
  \A c \in Calls :
    LET r == runs[c]["direct"]
        k == Len(r.outs)
    IN EndedOnFinalFailure(r)
       => /\ r.result = Throw(r.outs[k].err)
          /\ r.result.err.at = k
          /\ Len(r.invoked) = k
          /\ Len(r.sleeps) = k - 1
          /\ calls[c] = Settled(Throw(r.outs[k].err))
          /\ stats.failedRequests = 1
          /\ stats.successfulRequests = 0

\* a non-retryable failure on the first of several attempts
C7_Witness ==
  \E c \in Calls :
    LET r == runs[c]["direct"]
    IN /\ EndedOnFinalFailure(r)
       /\ cfg.retry.maxAttempts > 1
       /\ Len(r.outs) = 1
       /\ ~isRetryableError(r.outs[1].err, cfg.retry)
       /\ calls[c].st = "rejected"

\* the activation was cancelled when its wait began or during the wait
CancelledAtWait(r) ==
  /\ r.pc = "done"
  /\ r.signal = "aborted"
  /\ r.outs # <<>>
  /\ r.outs[Len(r.outs)].kind = "throw"
  /\ RetryDecision(r.outs[Len(r.outs)].err, Len(r.outs), cfg.retry) = "sleep"

C8_WaitEndsOnCancel ==
  \A c \in Calls, p \in Paths :
    LET r == runs[c][p]
    IN /\ r.pc = "sleep" => r.signal # "aborted"
       /\ CancelledAtWait(r) => r.result = Throw(SleepAbortedError)

C8_NoInvocationAfterCancel ==
  \A c \in Calls, p \in Paths :
    runs[c][p].signal = "aborted" => runs'[c][p].invoked = runs[c][p].invoked

\* C8: a backoff wait never lasts while its token is cancelled: begun with a
\* cancelled token or cancelled midway, it fails at once with the
\* cancellation failure, and the operation is not invoked again after the
\* cancellation.
C8_BackoffHonoursCancellation ==
  []C8_WaitEndsOnCancel /\ [][C8_NoInvocationAfterCancel]_vars

\* cancelled during a wait, after one failed attempt of several
C8_Witness ==
  \E c \in Calls :
    LET r == runs[c]["direct"]
    IN /\ CancelledAtWait(r)
       /\ Len(r.sleeps) = 1
       /\ Len(r.invoked) = 1
       /\ r.result = Throw(SleepAbortedError)

\* C9: for a failure that matches no retryable error tag and is no
\* recognised network failure, isRetryableError is true exactly when the
\* status is in the configured list, or, when no list is configured, when
\* the status is >= 500, 408 or 429.
C9_StatusRule ==
  (/\ pout.done
   /\ pin.fn = "isRetryableError"
   /\ ~MatchesRetryableErrors(pin.error, pin.config)
   /\ ~IsNetworkFailure(pin.error))
  => (pout.value <=>
        IF pin.config.hasStatuses
        THEN pin.error.status \in pin.config.retryableStatuses
        ELSE pin.error.status >= 500 \/ pin.error.status \in {408, 429})

Ids(q) == [i \in 1..Len(q) |-> q[i].id]

\* C10: under drop-oldest with maxSize = M, an enqueue on a queue of M calls
\* removes the front call and admits the new one, the size staying M; A, B,
\* C enqueued with M = 2 in FIFO mode leave [B, C].
C10_DropOldest ==
  /\ (/\ qlog.last.op = "enqueue"
      /\ cfg.queue.policy = "drop-oldest"
      /\ cfg.queue.maxSize >= 1
      /\ Len(qlog.last.before) = cfg.queue.maxSize)
     => /\ Len(queue) = cfg.queue.maxSize
        /\ qlog.last.id \in QueueIds(queue)
        /\ QueueIds(queue) =
             (QueueIds(qlog.last.before) \ {Head(qlog.last.before).id}) \cup {qlog.last.id}
  /\ (/\ cfg.queue.policy = "drop-oldest"
      /\ cfg.queue.maxSize = 2
      /\ ~cfg.queue.priority
      /\ ~qlog.edited
      /\ qlog.deq = <<>>
      /\ Len(qlog.enq) = 3)
     => Ids(queue) = <<2, 3>>

C10_Witness ==
  /\ cfg.queue = QueueConfig("drop-oldest", 2, FALSE)
  /\ qlog.last.op = "enqueue"
  /\ Len(qlog.last.before) = 2
  /\ ~qlog.edited
  /\ qlog.deq = <<>>
  /\ Len(qlog.enq) = 3
  /\ Ids(queue) = <<2, 3>>

\* the requests are numbered in arrival order: the resident request with the
\* earliest enqueue timestamp is the one with the least id
Oldest(q) == CHOOSE id \in QueueIds(q) : \A other \in QueueIds(q) : id <= other

\* C11: under drop-oldest, in FIFO mode and in priority mode, the request
\* evicted by an enqueue on a full queue is the oldest resident request.
C11_EvictsOldest ==
  (/\ qlog.last.op = "enqueue"
   /\ cfg.queue.policy = "drop-oldest"
   /\ QueueIsFull(qlog.last.before, cfg.queue))
  => QueueIds(qlog.last.before) \ QueueIds(queue) = {Oldest(qlog.last.before)}

\* C12: under reject with maxSize = M, an enqueue on a queue of M calls raises
\* the queue-full failure, leaves the queue as it was and writes nothing to
\* storage; A, B, C enqueued with M = 2 leave [A, B].
C12_RejectLeavesQueue ==
  /\ (/\ qlog.last.op = "enqueue"
      /\ cfg.queue.policy = "reject"
      /\ cfg.queue.maxSize >= 1
      /\ Len(qlog.last.before) = cfg.queue.maxSize)
     => /\ qlog.last.outcome = "rejected"
        /\ queue = qlog.last.before
        /\ ~qlog.last.wrote
  /\ (/\ cfg.queue.policy = "reject"
      /\ cfg.queue.maxSize = 2
      /\ ~cfg.queue.priority
      /\ ~qlog.edited
      /\ qlog.deq = <<>>
      /\ Len(qlog.enq) = 3)
     => Ids(queue) = <<1, 2>>

C12_Witness ==
  /\ cfg.queue = QueueConfig("reject", 2, FALSE)
  /\ store.persist
  /\ qlog.last.op = "enqueue"
  /\ qlog.last.outcome = "rejected"
  /\ ~qlog.edited
  /\ qlog.deq = <<>>
  /\ Len(qlog.enq) = 3
  /\ Ids(queue) = <<1, 2>>
  /\ Ids(store.items) = <<1, 2>>

\* C13: under drop-newest with maxSize = M, an enqueue on a queue of M calls
\* leaves the queue as it was, raises nothing and returns an id that no
\* resident call has: remove(id) returns false and changes nothing.
C13_DropNewestLeavesQueue ==
  (/\ qlog.last.op = "enqueue"
   /\ cfg.queue.policy = "drop-newest"
   /\ cfg.queue.maxSize >= 1
   /\ Len(qlog.last.before) = cfg.queue.maxSize)
  => /\ qlog.last.outcome = "dropped"
     /\ queue = qlog.last.before
     /\ qlog.last.returned = qlog.last.id
     /\ qlog.last.returned \notin QueueIds(queue)
     /\ removeReturns(queue, qlog.last.returned) = 0
     /\ remove(queue, qlog.last.returned) = queue

C13_Witness ==
  /\ cfg.queue.policy = "drop-newest"
  /\ cfg.queue.maxSize = 2
  /\ qlog.last.op = "enqueue"
  /\ qlog.last.outcome = "dropped"
  /\ Len(queue) = 2
  /\ qlog.last.returned = 3

\* C14: in priority mode the queue is ordered by non-increasing priority (a
\* call without priority counting as the code compares it, req.priority || 0),
\* calls of equal priority in arrival order, so that dequeue returns the
\* earliest call of the highest priority present.
C14_PriorityOrder ==
  cfg.queue.priority =>
    \A i \in 1..Len(queue) : \A j \in (i + 1)..Len(queue) :
      \/ PriorityOrZero(queue[i].priority) > PriorityOrZero(queue[j].priority)
      \/ /\ PriorityOrZero(queue[i].priority) = PriorityOrZero(queue[j].priority)
         /\ queue[i].id < queue[j].id

\* C15: a step in which an executeFetch ends leaves retrySuccessRate equal to
\* successfulRequests / totalRequests, where totalRequests > 0; and the rate
\* is 0 as long as totalRequests is 0.
Outcomes(st) == st.successfulRequests + st.failedRequests
RateIs(st, num, den) == st.retrySuccessRate[1] * den = num * st.retrySuccessRate[2]

C15_RateAfterOutcome ==
  [][/\ (Outcomes(stats') > Outcomes(stats) /\ stats'.totalRequests > 0)
        => RateIs(stats', stats'.successfulRequests, stats'.totalRequests)
     /\ (stats'.totalRequests = 0) => RateIs(stats', 0, 1)]_vars

C15_Witness ==
  /\ stats.totalRequests = 2
  /\ stats.successfulRequests = 1
  /\ stats.failedRequests = 1
  /\ \A c \in CallsMade : calls[c].st \in {"resolved", "rejected"}
  /\ RateIs(stats, 1, 2)

\* C16: in every state retrySuccessRate is between 0 and 1 and
\* successfulRequests + failedRequests <= totalRequests, calls restored from
\* storage and executed by the drain included.
C16_RateWithinUnit ==
  /\ Outcomes(stats) <= stats.totalRequests
  /\ 0 <= stats.retrySuccessRate[1]
  /\ stats.retrySuccessRate[1] <= stats.retrySuccessRate[2]

\* A step in which the sensor delivers an update to the coordinator: a
\* window event without quality testing, the end of a measurement with it
SensorUpdate ==
  /\ mon.callback
  /\ \/ ~cfg.probe /\ net' # net /\ mon.window
     \/ ProbeCount' < ProbeCount
CountOf(events, type) == Cardinality({i \in 1..Len(events) : events[i].type = type})

\* C17: a sensor update whose quality differs from that of the coordinator's
\* previous status makes the coordinator emit exactly one quality-changed
\* event, carrying the previous quality.
C17_QualityChangeEmitted ==
  [][(SensorUpdate /\ det'.quality # hs.status.quality)
       => \A l \in Range(lis'.telemetry) :
            /\ CountOf(lis'.events[l], "quality-changed") = 1
            /\ \E i \in 1..Len(lis'.events[l]) :
                 lis'.events[l][i] = NetworkEvent("quality-changed", hs.status.quality, 0)]_vars

C19_ListenersIsolated ==
  /\ \A l \in Range(lis.telemetry), k \in Range(lis.telemetry) : lis.events[l] = lis.events[k]
  /\ \A l \in Range(lis.due) : lis.snaps[l] = <<hs.status>>
  /\ \A l \in Listeners : lis.subscribed[l] # "threw"

\* C20: destroy() leaves the queue as it was and clears the status listeners
\* (the per-call watches among them) and the telemetry callbacks; a callback
\* it removed is not called again unless it is registered again.
C20_DestroyClearsListeners ==
  /\ lis.destroyedFrom # <<>>
       => /\ queue = lis.destroyedFrom[1]
          /\ lis.telemetry = <<>>
          /\ lis.status = <<>>
          /\ watch = {}
  /\ \A l \in lis.cleared.telemetry : lis.events[l] = <<>>
  /\ \A l \in lis.cleared.status : lis.snaps[l] = <<>>
  /\ \A c \in lis.cleared.watch : c \notin watch /\ runs[c]["watch"] = IdleRun

C20_Witness ==
  /\ lis.cleared.telemetry # {}
  /\ lis.cleared.status # {}
  /\ lis.cleared.watch # {}
  /\ queue # <<>>
  /\ lis.destroyedFrom = <<>>
  /\ lis.telemetry # <<>>
  /\ hs.status.isOnline

\* C21 (refuted by the code): with persistence enabled, a storage whose
\* getItem, setItem or removeItem fails never makes enqueue, dequeue, remove
\* or clear fail: no operation of the queue raises the storage's failure.
C21_StorageFaultNeverRaised ==
  qlog.last.op \in {"enqueue", "dequeue", "remove", "clear"} => qlog.last.raised # "storage"

\* a request without its cancellation token
Comparable(req) == [id |-> req.id, priority |-> req.priority, headers |-> req.headers]

\* C22 (refuted by the code): after a queue has persisted n calls without a
\* storage failure, a new queue made over the same storage key holds, once
\* loaded, exactly those n calls in the same order with identical id,
\* headers and priority.
C22_RoundTripIdentical ==
  (qlog.last.op = "construct" /\ ~qlog.faulted)
    => /\ Len(queue) = Len(qlog.last.before)
       /\ \A i \in 1..Len(queue) : Comparable(queue[i]) = Comparable(qlog.last.before[i])

\* C23 (refuted by the code): every call restored from storage that held a
\* cancellation token when it was enqueued holds a new token after the load.
C23_RestoredTokenRenewed ==
  (qlog.last.op = "construct" /\ ~qlog.last.fault)
    => \A i \in 1..Len(queue) :
         qlog.enq[queue[i].id].abortController => queue[i].abortController

\* C24 (refuted by the code): in every reachable state of the sensor, the
\* initial one and the one after each platform signal or probe result, a
\* status with isOnline = false has quality weak.
C24_OfflineIsWeak ==
  ~det.isOnline => det.quality = "weak"

\* C25 (refuted by the code): after replaceGlobalFetch(handler), a call of
\* the global fetch made while the handler is online with non-weak quality
\* terminates: the transport is asked at most maxAttempts times and the call
\* settles with the transport's response or failure.
C25_GlobalFetchSettlesWithTransport ==
  \A c \in glob.calls :
    LET r == runs[c]["direct"]
    IN ~hist.decision[c].queued
       => /\ Len(r.invoked) <= cfg.retry.maxAttempts
          /\ r.pc = "done" =>
               /\ calls[c] = Settled(r.result)
               /\ r.result.kind = "throw" => r.result.err.name # S_RangeError

\* the calls whose execution a drain pass is awaiting
ActiveDrains == {c \in Calls : runs[c]["drain"].pc \in {"fetch", "sleep"}}

\* the calls the drain path took from the queue in the step
DrainStarted ==
  {c \in Calls : runs[c]["drain"].pc = "idle" /\ runs'[c]["drain"].pc # "idle"}

\* C26: at most one drain pass is active at any time: a processQueue called
\* while a pass is in progress starts no second loop and dequeues nothing,
\* the pass awaits one call at a time, and processingQueue is set exactly
\* while a pass is awaiting a call, so it is cleared whenever the pass ends,
\* after a call that succeeded or one that failed.
C26_SingleDrainPass ==
  [][/\ Cardinality(ActiveDrains') <= 1
     /\ hs'.processingQueue <=> ActiveDrains' # {}
     /\ hist'.refused = "yes" =>
          /\ hs.processingQueue
          /\ ActiveDrains' = ActiveDrains
          /\ DrainStarted = {}]_vars

\* a reconnection or the end of initialize() called processQueue while a
\* pass was awaiting a call, and calls were waiting in the queue
C26_Witness ==
  /\ hist.refused = "yes"
  /\ hs.processingQueue
  /\ hs.status.isOnline
  /\ queue # <<>>

\* the thresholds determineQuality works with
WeakThreshold(th) == IF th.weak = -1 THEN 1000 ELSE th.weak
MediumThreshold(th) == IF th.medium = -1 THEN 300 ELSE th.medium

CappedExponential(attempt, config) ==
  LET exp == config.baseDelay * Pow2(attempt - 1)
  IN IF config.maxDelay # -1 THEN Min(exp, config.maxDelay) ELSE exp

\* C28 (refuted by the code): for attempt >= 1 and an integer baseDelay >= 0,
\* fixed gives baseDelay and exponential gives baseDelay * 2^(attempt-1),
\* each capped at maxDelay when set; exponential-jitter gives a value in
\* [0, exponential(attempt)] and exponential-partial-jitter a value in
\* [exponential(attempt)/2, exponential(attempt)] for every random draw; and
\* every result is a non-negative integer not above maxDelay when set.
C28_DelayWithinBounds ==
  (pin.fn = "calculateRetryDelay" /\ pout.done)
  => LET c == pin.config
         e == CappedExponential(pin.attempt, c)
         d == pout.value
     IN /\ d >= 0
        /\ c.maxDelay # -1 => d <= c.maxDelay
        /\ c.strategy = "fixed" =>
             d = (IF c.maxDelay # -1 THEN Min(c.baseDelay, c.maxDelay) ELSE c.baseDelay)
        /\ c.strategy = "exponential" => d = e
        /\ c.strategy = "exponential-jitter" => d <= e
        /\ c.strategy = "exponential-partial-jitter" => (2 * d >= e /\ d <= e)

\* C29: within a drain pass the calls are dispatched one at a time in queue
\* order: the call the pass starts is the one at the front of the queue, it
\* is started only when no call of the pass is still being executed, a call
\* that failed is followed by the next one while the status is online, and
\* nothing is dequeued once the status is offline.
C29_DrainInOrder ==
  [][/\ DrainStarted # {} =>
          /\ queue # <<>>
          /\ DrainStarted = {Head(queue).id}
          /\ hs'.status.isOnline
          /\ \A d \in ActiveDrains : runs'[d]["drain"].pc = "done"
     /\ Cardinality(ActiveDrains') <= 1
     /\ \A d \in ActiveDrains :
          (/\ runs'[d]["drain"].pc = "done"
           /\ runs'[d]["drain"].result.kind = "throw"
           /\ hs'.status.isOnline
           /\ queue # <<>>) => DrainStarted # {}
     /\ ~hs'.status.isOnline => DrainStarted = {}]_vars

\* the pass went on to the next call after a call that failed, with another
\* call still waiting behind it
C29_Witness ==
  \E c \in Calls, d \in Calls :
    /\ runs[c]["drain"].pc = "done"
    /\ runs[c]["drain"].result.kind = "throw"
    /\ runs[d]["drain"].pc = "fetch"
    /\ queue # <<>>

\* the attempts an execution has performed, and those it started in the step
Attempts(r) == Len(r.invoked)
RetriesStarted(r, r2) == IF Attempts(r2) > Attempts(r) /\ Attempts(r2) > 1 THEN 1 ELSE 0
Ended(r, r2) == r.pc # "done" /\ r2.pc = "done"

\* C30 (as stated; refuted for k = 0): once an execution of executeFetch has
\* performed k transport attempts and terminated, retryAttempts has
\* increased by exactly k-1.
C30_RetriesAreAttemptsLessOne ==
  \A c \in Calls :
    runs[c]["direct"].pc = "done" => stats.retryAttempts = Attempts(runs[c]["direct"]) - 1

\* C30 (amended): an execution of executeFetch that performs k >= 1
\* transport attempts and terminates increases retryAttempts by exactly k-1
\* and emits exactly k-1 request-retried events, one as each attempt after
\* the first begins; one that performs no attempt, its token being cancelled
\* already, leaves retryAttempts as it was.  In both cases exactly one of
\* successfulRequests and failedRequests increases by one, with exactly one
\* request-succeeded or request-failed event, when the execution ends; none
\* of the counters ever decreases.
C30_CountersFollowAttempts ==
  [][LET Stepped == {c \in Calls : runs'[c]["direct"] # runs[c]["direct"]}
         Gained(l, type) == CountOf(lis'.events[l], type)
     IN /\ Cardinality(Stepped) <= 1
        /\ Stepped = {} =>
             /\ stats' = stats
             /\ \A l \in Listeners : lis'.events[l] = <<>>
        /\ \A c \in Stepped :
             LET r == runs[c]["direct"]
                 r2 == runs'[c]["direct"]
                 ok == IF Ended(r, r2) /\ r2.result.kind = "return" THEN 1 ELSE 0
                 ko == IF Ended(r, r2) /\ r2.result.kind = "throw" THEN 1 ELSE 0
             IN /\ stats'.retryAttempts = stats.retryAttempts + RetriesStarted(r, r2)
                /\ stats'.successfulRequests = stats.successfulRequests + ok
                /\ stats'.failedRequests = stats.failedRequests + ko
                /\ Ended(r, r2) => ok + ko = 1
                /\ \A l \in Listeners :
                     /\ Gained(l, "request-retried") = RetriesStarted(r, r2)
                     /\ Gained(l, "request-succeeded") = ok
                     /\ Gained(l, "request-failed") = ko
                /\ r2.pc = "done" =>
                     /\ stats'.successfulRequests + stats'.failedRequests = 1
                     /\ Attempts(r2) >= 1 => stats'.retryAttempts = Attempts(r2) - 1
                     /\ Attempts(r2) = 0 =>
                          (stats'.retryAttempts = 0 /\ stats'.failedRequests = 1)]_vars

\* an execution ended after three attempts, two of them counted as retries
C30_Witness ==
  \E c \in Calls :
    /\ runs[c]["direct"].pc = "done"
    /\ Attempts(runs[c]["direct"]) = 3
    /\ stats.retryAttempts = 2
    /\ stats.successfulRequests + stats.failedRequests = 1
    /\ \E l \in Listeners :
         CountOf(lis.events[l], "request-succeeded")
           + CountOf(lis.events[l], "request-failed") = 1

\* C31: with quality testing enabled, after every startMonitoring, returned
\* unsubscribe function and stopMonitoring the probe timer is running exactly
\* when a listener is registered; stopMonitoring leaves no listener and no
\* timer, and a second stopMonitoring changes nothing.
C31_TimerIffListeners ==
  [][/\ cfg.probe => (mon'.timer <=> mon'.listeners # {})
     /\ mon'.last = "stop" => (mon'.listeners = {} /\ ~mon'.timer)
     /\ (mon.last = "stop" /\ mon'.last = "stop") => mon' = mon]_vars

\* C32: a call that was queued is executed, when the drain pass or its
\* watch dispatches it, with the cancellation signal its caller gave to
\* smartFetch: once the caller has aborted that signal, the call's transport
\* operation is aborted and it is in no backoff wait.
C32_QueuedCallHonoursCaller ==
  \A c \in Calls : \A p \in {"drain", "watch"} :
    (hist.decision[c].queued /\ hist.given[c] = "aborted") =>
      /\ runs[c][p].pc # "sleep"
      /\ runs[c][p].pc = "fetch" => runs[c][p].signal = "aborted"

\* what is stored under the storage key, an absent key being the empty queue
Stored == IF store.has THEN store.items ELSE <<>>

\* C33: with persistence over a storage that does not fail, after a mutating
\* queue operation and once every storage write made has completed, what is
\* stored under the storage key is the queue in memory, in order, without
\* the cancellation tokens.
C33_StoredIsQueue ==
  (qlog.ops > 0 /\ store.writes = <<>>) => Stored = Serializable(queue)

\* C33, for a storage that completes its calls in order and held nothing
\* when the queue was constructed
C33_StoredIsQueueWhenOrderedAndNew ==
  (store.ordered /\ ~store.read.has /\ qlog.ops > 0 /\ store.writes = <<>>)
    => Stored = Serializable(queue)

\* C34: a queue that was constructed empty with a maxSize of at least 1 and
\* policy drop-oldest, drop-newest or reject never holds more than maxSize
\* requests, whatever enqueue, dequeue, remove and clear calls are made.
C34_SizeWithinMaxSize ==
  (cfg.queue.maxSize >= 1 /\ cfg.queue.policy # "persist")
    => Len(queue) <= cfg.queue.maxSize

\* an enqueue on a full drop-oldest queue left it full
C34_Witness ==
  /\ cfg.queue.policy = "drop-oldest"
  /\ cfg.queue.maxSize >= 1
  /\ qlog.last.op = "enqueue"
  /\ Len(qlog.last.before) = cfg.queue.maxSize
  /\ Len(queue) = cfg.queue.maxSize

\* under the persist policy the queue does grow past maxSize
C34_PersistExceeds ==
  cfg.queue.policy = "persist" /\ cfg.queue.maxSize >= 1 /\ Len(queue) > cfg.queue.maxSize

\* C35: a coordinator constructed online over a storage that holds a queued
\* call dispatches that call by its construction-time drain, whichever of
\* the storage read and the initial status fetch completes first: once both
\* have completed and no drain pass is in progress, the platform having
\* stayed online, the restored call has been handed to executeFetch.
C35_RestoredDispatchedAtConstruction ==
  (store.loaded /\ hs.init = "done" /\ ~hs.processingQueue /\ net)
    => Executed(RestoredId)

\* the paths on which call c has been handed to executeFetch
PathsTaken(c) == {p \in Paths : runs[c][p].pc # "idle"}

\* C36: a call admitted to the queue is handed to executeFetch at most once:
\* never by both the drain pass and its watch, never directly, never again
\* once its execution has ended, and once it has left the queue it is not in
\* the queue again.
C36_ExecutedAtMostOnce ==
  [][\A c \in Calls :
       hist.decision[c].queued =>
         /\ Cardinality(PathsTaken(c)') <= 1
         /\ "direct" \notin PathsTaken(c)'
         /\ PathsTaken(c) \subseteq PathsTaken(c)'
         /\ \A p \in Paths : runs[c][p].pc = "done" => runs'[c][p] = runs[c][p]
         /\ \A p \in PathsTaken(c) : Len(runs'[c][p].invoked) >= Len(runs[c][p].invoked)
         /\ c \notin QueueIds(queue) => c \notin QueueIds(queue')
         /\ PathsTaken(c)' # {} => c \notin QueueIds(queue')]_vars

\* the drain pass took a call before its watch ran, the watch did not find it
\* and executed nothing, while the watch of another call executed that call
C36_Witness ==
  \E c \in Calls, d \in Calls :
    /\ c # d
    /\ PathsTaken(c) = {"drain"}
    /\ calls[c] = Settled(Throw(NotFoundError))
    /\ PathsTaken(d) = {"watch"}

C38_OnlineIsLatestSignal ==
  (cfg.probe /\ mon.window /\ ProbeCount = 0) => det.isOnline = net

\* C39: once destroy() has returned, the coordinator's callback is never
\* again registered on the sensor and the coordinator takes no further
\* status from it, also when destroy() came before initialize() finished.
Destroyed == lis.destroyedFrom # <<>>

C39_DestroyedStaysDetached ==
  [][Destroyed => (~mon'.callback /\ hs'.status = hs.status)]_vars

\* C40: a request-queued event is emitted only for a call that the step
\* put into the queue and that is resident there; a request-dequeued event
\* is emitted for a call that was resident (so after its request-queued),
\* once, and the call is no longer resident afterwards.
IdsOf(events, type) ==
  {events[i].number : i \in {j \in 1..Len(events) : events[j].type = type}}

TimesOf(events, type, c) ==
  Cardinality({i \in 1..Len(events) : events[i] = NetworkEvent(type, "", c)})

\* lis.events is what the last handler delivered: it is this step's where
\* the step ran a handler of the coordinator
Handled == <<stats, queue, calls, runs>>' # <<stats, queue, calls, runs>>

====
